---- MODULE Spec2Model ----
(***************************************************************************)
(* A model of the routing-and-resilience layer of QTMoS:                   *)
(*   - llm/llm_adapters.py: the Puter credential, the node bridge invoker, *)
(*     the token bootstrap, the dispatcher call_puter_with_model and the   *)
(*     router ask_router;                                                  *)
(*   - skills/qtmos-http-tools/scripts/route_prompt.py: the fallback       *)
(*     runner _run_with_fallbacks.                                         *)
(* Python strings are TLA+ strings, read character by character with       *)
(* SubSeq; a Python value that may be None, a str, a bool, a list or a     *)
(* dict is a tagged record [t |-> tag, v |-> value].                       *)
(***************************************************************************)
EXTENDS Integers, Sequences, FiniteSets, TLC

VARIABLES
    \* llm_adapters.py: the process environment and the module's settings
    environ,                \* os.environ, a function on the names that are set
    PUTER_KEY,              \* PUTER_API_KEY as read at import, "" when unset
    PUTER_DEFAULT_MODEL,
    PUTER_FALLBACK_MODEL,
    OLLAMA_MODEL,
    bridgeExists,           \* PUTER_NODE_BRIDGE.exists()
    sdk,                    \* the Puter.js SDK: "ok", "installable", "absent"
    geminiEnabled,          \* _gemini.enabled
    \* llm_adapters.py: the call in progress
    pc,                     \* where the call stands: the next external call
    entry,                  \* the function the caller invoked
    candidates,             \* call_puter_with_model: the resolved list
    ci,                     \* the index of `chosen` in candidates
    payload,                \* _run_puter_bridge_with_reauth: the first reply
    bootFrom,               \* the line that called _bootstrap_puter_token
    result,                 \* the values returned to the caller
    log,                    \* the calls made by the call in progress, in order
    \* route_prompt.py: _run_with_fallbacks
    models,                 \* the argument `models`
    mi,                     \* the position of the loop `for m in models`
    attempts,               \* the local list `attempts`
    out,                    \* the reply of the last _run_single
    rpc,                    \* "idle", "loop" or "done"
    rresult,                \* the dict returned
    \* _run_puter_node_bridge on one output of the helper
    plines,                 \* the lines the helper printed
    stdout,                 \* r.stdout
    parsed,                 \* the value returned
    ppc,                    \* "idle", "start" or "done"
    \* cognitive_system.py: puter-login
    envFile,                \* the text of llm/.env, "" while there is no file
    stores,                 \* the last two tokens puter-login stored, newest first
    \* call_puter_with_model called from two threads of the process
    callers,                \* the call in progress of each thread
    trace,                  \* the assignments of the token to os.environ, in order
    \* a function of the program called on its own
    fn,                     \* its name, "" before any call
    arg,                    \* the arguments it was given
    returned                \* the value it returned

llmVars == <<environ, PUTER_KEY, PUTER_DEFAULT_MODEL, PUTER_FALLBACK_MODEL,
             OLLAMA_MODEL, bridgeExists, sdk, geminiEnabled, pc, entry,
             candidates, ci, payload, bootFrom, result, log>>
routeVars == <<models, mi, attempts, out, rpc, rresult>>
parseVars == <<plines, stdout, parsed, ppc>>
loginVars == <<envFile, stores>>
sharedVars == <<callers, trace>>
toolVars == <<fn, arg, returned>>
vars == <<llmVars, routeVars, parseVars, loginVars, sharedVars, toolVars>>

(***************************************************************************)
(* Python values                                                           *)
(***************************************************************************)
PyNone == [t |-> "none"]
PyStr(s) == [t |-> "str", v |-> s]
PyBool(b) == [t |-> "bool", v |-> b]
PyNum(n) == [t |-> "num", v |-> n]
PyDict(f) == [t |-> "obj", v |-> f]
PyList(q) == [t |-> "arr", v |-> q]
EmptyMap == [k \in {} |-> PyNone]

IsNone(x) == x.t = "none"
IsDict(x) == x.t = "obj"
IsStr(x) == x.t = "str"
IsList(x) == x.t = "arr"

\* bool(x)
Truthy(x) ==
    CASE x.t = "none" -> FALSE
      [] x.t = "bool" -> x.v
      [] x.t = "str" -> x.v # ""
      [] x.t = "num" -> x.v # 0
      [] x.t = "obj" -> DOMAIN x.v # {}
      [] x.t = "arr" -> Len(x.v) > 0

\* p.get(key) where p may be anything: None unless p is a dict with the key
Get(p, key) ==
    IF IsDict(p) THEN (IF key \in DOMAIN p.v THEN p.v[key] ELSE PyNone)
    ELSE PyNone

\* x or y
PyOr(x, y) == IF Truthy(x) THEN x ELSE y

\* str(x)
StrOf(x) ==
    CASE x.t = "str" -> x.v
      [] x.t = "none" -> "None"
      [] x.t = "bool" -> (IF x.v THEN "True" ELSE "False")
      [] OTHER -> "<object>"

(***************************************************************************)
(* Python str methods                                                      *)
(***************************************************************************)
Ch(s, i) == SubSeq(s, i, i)
\* The whitespace str.strip() and str.split() remove (the ASCII part).
WS == {" ", "\t", "\n", "\r", "\f"}

RECURSIVE LStrip(_)
LStrip(s) ==
    IF Len(s) > 0 /\ Ch(s, 1) \in WS THEN LStrip(SubSeq(s, 2, Len(s))) ELSE s

RECURSIVE RStrip(_)
RStrip(s) ==
    IF Len(s) > 0 /\ Ch(s, Len(s)) \in WS
    THEN RStrip(SubSeq(s, 1, Len(s) - 1)) ELSE s

Strip(s) == RStrip(LStrip(s))

\* "".join(s.split())
RECURSIVE RemoveWs(_)
RemoveWs(s) ==
    IF s = "" THEN ""
    ELSE (IF Ch(s, 1) \in WS THEN "" ELSE Ch(s, 1))
             \o RemoveWs(SubSeq(s, 2, Len(s)))

StartsWith(s, p) == Len(s) >= Len(p) /\ SubSeq(s, 1, Len(p)) = p
EndsWith(s, p) == Len(s) >= Len(p) /\ SubSeq(s, Len(s) - Len(p) + 1, Len(s)) = p
\* sub in s
Contains(s, sub) ==
    \E i \in 1..(Len(s) - Len(sub) + 1) : SubSeq(s, i, i + Len(sub) - 1) = sub

LowerLetters == "abcdefghijklmnopqrstuvwxyz"
UpperLetters == "ABCDEFGHIJKLMNOPQRSTUVWXYZ"
\* The upper-case letter of each lower-case letter, and the reverse.
UpperOf == [c \in {Ch(LowerLetters, i) : i \in 1..Len(LowerLetters)} |->
               Ch(UpperLetters,
                  CHOOSE i \in 1..Len(LowerLetters) : Ch(LowerLetters, i) = c)]
LowerOf == [c \in {Ch(UpperLetters, i) : i \in 1..Len(UpperLetters)} |->
               Ch(LowerLetters,
                  CHOOSE i \in 1..Len(UpperLetters) : Ch(UpperLetters, i) = c)]
\* s.upper() and s.lower()
RECURSIVE Upper(_)
Upper(s) ==
    IF s = "" THEN ""
    ELSE (IF Ch(s, 1) \in DOMAIN UpperOf THEN UpperOf[Ch(s, 1)] ELSE Ch(s, 1))
             \o Upper(SubSeq(s, 2, Len(s)))
RECURSIVE Lower(_)
Lower(s) ==
    IF s = "" THEN ""
    ELSE (IF Ch(s, 1) \in DOMAIN LowerOf THEN LowerOf[Ch(s, 1)] ELSE Ch(s, 1))
             \o Lower(SubSeq(s, 2, Len(s)))

\* s.splitlines(): breaks at \n, \r, \r\n and \f; no empty last line.
LineBreaks == {"\n", "\r", "\f"}
FirstBreak(s) ==
    CHOOSE k \in 1..Len(s) :
        /\ Ch(s, k) \in LineBreaks
        /\ \A m \in 1..(k - 1) : Ch(s, m) \notin LineBreaks
RECURSIVE SplitLines(_)
SplitAt(s, i) ==
    <<SubSeq(s, 1, i - 1)>>
        \o SplitLines(SubSeq(s, IF Ch(s, i) = "\r" /\ i < Len(s) /\ Ch(s, i + 1) = "\n"
                                 THEN i + 2 ELSE i + 1, Len(s)))
SplitLines(s) ==
    IF s = "" THEN <<>>
    ELSE IF \E i \in 1..Len(s) : Ch(s, i) \in LineBreaks
    THEN SplitAt(s, FirstBreak(s))
    ELSE <<s>>

Reverse(q) == [i \in 1..Len(q) |-> q[Len(q) + 1 - i]]
StripAll(q) == [i \in 1..Len(q) |-> Strip(q[i])]
InSeq(x, q) == \E i \in 1..Len(q) : q[i] = x

(***************************************************************************)
(* json.loads, for the JSON texts built from objects, arrays, strings      *)
(* (escapes \" \\ \/ \n \t \r \u0000), integers, true, false and null      *)
(***************************************************************************)
\* The character U+0000, which no TLA+ string can hold, is written ^@.
NUL == "^@"
JFail == [ok |-> FALSE, v |-> PyNone, i |-> 0]
JOk(val, next) == [ok |-> TRUE, v |-> val, i |-> next]
Digits == "0123456789"
DigitOf == [c \in {Ch(Digits, d) : d \in 1..Len(Digits)} |->
               (CHOOSE d \in 1..Len(Digits) : Ch(Digits, d) = c) - 1]
At(s, i) == IF i >= 1 /\ i <= Len(s) THEN Ch(s, i) ELSE ""
Lit(s, i, w) == i + Len(w) - 1 <= Len(s) /\ SubSeq(s, i, i + Len(w) - 1) = w

RECURSIVE SkipWs(_, _)
SkipWs(s, i) ==
    IF At(s, i) \in {" ", "\t", "\n", "\r"} THEN SkipWs(s, i + 1) ELSE i

Unescape(e) ==
    CASE e = "\"" -> "\""
      [] e = "\\" -> "\\"
      [] e = "/" -> "/"
      [] e = "n" -> "\n"
      [] e = "t" -> "\t"
      [] e = "r" -> "\r"
      [] OTHER -> ""

\* The characters of a string from position i (after the opening quote).
RECURSIVE ScanString(_, _, _)
ScanChar(s, i, acc, c) ==
    IF c = "" THEN JFail
    ELSE IF c = "\"" THEN JOk(PyStr(acc), i + 1)
    ELSE IF c = "\\" /\ Lit(s, i + 1, "u0000") THEN ScanString(s, i + 6, acc \o NUL)
    ELSE IF c = "\\"
    THEN (IF Unescape(At(s, i + 1)) = "" THEN JFail
          ELSE ScanString(s, i + 2, acc \o Unescape(At(s, i + 1))))
    ELSE IF c \in {"\n", "\t", "\r", "\f"} THEN JFail
    ELSE ScanString(s, i + 1, acc \o c)
ScanString(s, i, acc) == ScanChar(s, i, acc, At(s, i))

RECURSIVE ScanDigits(_, _, _)
ScanDigits(s, i, acc) ==
    IF At(s, i) \in DOMAIN DigitOf
    THEN ScanDigits(s, i + 1, 10 * acc + DigitOf[At(s, i)])
    ELSE JOk(PyNum(acc), i)

ScanNumber(s, i) ==
    IF At(s, i) = "0" THEN JOk(PyNum(0), i + 1)
    ELSE IF At(s, i) \in DOMAIN DigitOf THEN ScanDigits(s, i, 0)
    ELSE JFail

RECURSIVE ParseValue(_, _), ParseMembers(_, _, _), ParseElements(_, _, _)
ValueAt(s, i, c) ==
    IF c = "\"" THEN ScanString(s, i + 1, "")
    ELSE IF c = "{"
    THEN (IF At(s, SkipWs(s, i + 1)) = "}"
          THEN JOk(PyDict(EmptyMap), SkipWs(s, i + 1) + 1)
          ELSE ParseMembers(s, SkipWs(s, i + 1), EmptyMap))
    ELSE IF c = "["
    THEN (IF At(s, SkipWs(s, i + 1)) = "]"
          THEN JOk(PyList(<<>>), SkipWs(s, i + 1) + 1)
          ELSE ParseElements(s, SkipWs(s, i + 1), <<>>))
    ELSE IF Lit(s, i, "true") THEN JOk(PyBool(TRUE), i + 4)
    ELSE IF Lit(s, i, "false") THEN JOk(PyBool(FALSE), i + 5)
    ELSE IF Lit(s, i, "null") THEN JOk(PyNone, i + 4)
    ELSE ScanNumber(s, i)
ParseValue(s, i) == ValueAt(s, i, At(s, i))

\* A member "key" : value, then "," and the next member, or "}"; a repeated
\* key keeps its last value.
MembersNext(s, acc, e) ==
    IF At(s, e) = "," THEN ParseMembers(s, SkipWs(s, e + 1), acc)
    ELSE IF At(s, e) = "}" THEN JOk(PyDict(acc), e + 1)
    ELSE JFail
MemberValue(s, key, val, acc) ==
    IF ~val.ok THEN JFail
    ELSE MembersNext(s, (key :> val.v) @@ acc, SkipWs(s, val.i))
MemberKey(s, k, acc) ==
    IF ~k.ok THEN JFail
    ELSE IF At(s, SkipWs(s, k.i)) # ":" THEN JFail
    ELSE MemberValue(s, k.v.v, ParseValue(s, SkipWs(s, SkipWs(s, k.i) + 1)), acc)
ParseMembers(s, j, acc) ==
    IF At(s, j) # "\"" THEN JFail
    ELSE MemberKey(s, ScanString(s, j + 1, ""), acc)

ElementsNext(s, acc, e) ==
    IF At(s, e) = "," THEN ParseElements(s, SkipWs(s, e + 1), acc)
    ELSE IF At(s, e) = "]" THEN JOk(PyList(acc), e + 1)
    ELSE JFail
ElementValue(s, val, acc) ==
    IF ~val.ok THEN JFail
    ELSE ElementsNext(s, Append(acc, val.v), SkipWs(s, val.i))
ParseElements(s, j, acc) == ElementValue(s, ParseValue(s, j), acc)

\* json.loads(s): [ok |-> parsed, v |-> the value]; ok is FALSE where
\* json.loads raises.
WholeText(s, r) == IF r.ok /\ SkipWs(s, r.i) = Len(s) + 1 THEN r ELSE JFail
JsonLoads(s) == WholeText(s, ParseValue(s, SkipWs(s, 1)))

(***************************************************************************)
(* The reply of the node bridge: the result parsed out of its noisy stdout *)
(***************************************************************************)
\* The first candidate, in order, that looks like an object and parses.
RECURSIVE FirstParsed(_)
TryParsed(cands, r) == IF r.ok THEN r.v ELSE FirstParsed(Tail(cands))
TryCandidate(cands, c) ==
    IF c = "" THEN FirstParsed(Tail(cands))
    ELSE IF ~(StartsWith(c, "{") /\ EndsWith(c, "}")) THEN FirstParsed(Tail(cands))
    ELSE TryParsed(cands, JsonLoads(c))
FirstParsed(cands) ==
    IF Len(cands) = 0 THEN PyNone ELSE TryCandidate(cands, Head(cands))

\* A mutation: only the full payload is tried, never a single line.
ParseBridgeOutput_FullOnly(text) ==
    IF Strip(text) = "" THEN PyNone ELSE FirstParsed(<<Strip(text)>>)

\* A mutation: the lines are tried first to last instead of last to first.
ParseBridgeOutput_Forward(text) ==
    IF Strip(text) = "" THEN PyNone
    ELSE FirstParsed(<<Strip(text)>> \o StripAll(SplitLines(Strip(text))))

\* _run_puter_node_bridge from `out = (r.stdout or "").strip()` on: the full
\* trimmed payload first, then each line, last to first.
ParseBridgeOutput(text) ==
    IF Strip(text) = "" THEN PyNone
    ELSE FirstParsed(<<Strip(text)>> \o StripAll(Reverse(SplitLines(Strip(text)))))

(***************************************************************************)
(* llm_adapters.py: the credential                                         *)
(***************************************************************************)
\* os.getenv(name)
getenv(e, name) == IF name \in DOMAIN e THEN PyStr(e[name]) ELSE PyNone
\* os.getenv(name, default)
getenv_default(e, name, default) == IF name \in DOMAIN e THEN e[name] ELSE default
\* os.environ[name] = value
setenv(e, name, value) == (name :> value) @@ e

_puter_token(e) ==
    RemoveWs(StrOf(PyOr(PyOr(getenv(e, "puterAuthToken"),
                             getenv(e, "PUTER_AUTH_TOKEN")), PyStr(""))))

\* os.environ[name] = value raises ValueError (embedded null byte), and
\* sets nothing, where value holds the character U+0000.
setenv_raises(value) == Contains(value, NUL)

\* A mutation: the token is set as it is given, white space and all.
_set_puter_token_Unstripped(e, token) ==
    LET clean == StrOf(PyOr(token, PyStr("")))
    IN  IF clean = "" THEN [environ |-> e, ret |-> PyStr(""), raise |-> FALSE]
        ELSE IF setenv_raises(clean)
        THEN [environ |-> e, ret |-> PyNone, raise |-> TRUE]
        ELSE [environ |-> setenv(setenv(e, "puterAuthToken", clean),
                                 "PUTER_AUTH_TOKEN", clean),
              ret |-> PyStr(clean), raise |-> FALSE]

\* _set_puter_token(token): the environment afterwards and the value
\* returned, or raise where the first assignment raises.
_set_puter_token(e, token) ==
    LET clean == RemoveWs(StrOf(PyOr(token, PyStr(""))))
    IN  IF clean = "" THEN [environ |-> e, ret |-> PyStr(""), raise |-> FALSE]
        ELSE IF setenv_raises(clean)
        THEN [environ |-> e, ret |-> PyNone, raise |-> TRUE]
        ELSE [environ |-> setenv(setenv(e, "puterAuthToken", clean),
                                 "PUTER_AUTH_TOKEN", clean),
              ret |-> PyStr(clean), raise |-> FALSE]

has_puter_auth(e) == PUTER_KEY # "" \/ _puter_token(e) # ""

(***************************************************************************)
(* llm_adapters.py: what a bridge reply says                               *)
(***************************************************************************)
PUTER_AUTH_RETRY_ERRORS ==
    {"MISSING_AUTH_TOKEN", "INVALID_TOKEN_PLACEHOLDER", "INIT_FAILED",
     "AUTH_BOOTSTRAP_FAILED"}
PUTER_AUTH_RETRY_DETAIL_MARKERS ==
    {"unauthorized", "forbidden", "invalid token", "invalid header value",
     "auth", "expired", "session", "401", "403"}

_bridge_error(p) ==
    IF ~IsDict(p) THEN ""
    ELSE Upper(Strip(StrOf(PyOr(Get(p, "error"), PyStr("")))))

_bridge_detail(p) ==
    IF ~IsDict(p) THEN ""
    ELSE Lower(Strip(StrOf(PyOr(Get(p, "detail"), PyStr("")))))

_is_bridge_auth_failure(p) ==
    \/ _bridge_error(p) \in PUTER_AUTH_RETRY_ERRORS
    \/ /\ _bridge_detail(p) # ""
       /\ \E mark \in PUTER_AUTH_RETRY_DETAIL_MARKERS :
              Contains(_bridge_detail(p), mark)

\* payload.get("ok") and payload.get("content") of call_puter_with_model
IsChatSuccess(p) ==
    IsDict(p) /\ Truthy(Get(p, "ok")) /\ Truthy(Get(p, "content"))

(***************************************************************************)
(* llm_adapters.py: the keyed HTTP reply                                   *)
(***************************************************************************)
\* str(bit.get("text", "")) of a bit of type "text", "" of any other
BitText(bit) ==
    IF IsDict(bit) /\ IsStr(Get(bit, "type")) /\ Get(bit, "type").v = "text"
    THEN (IF "text" \in DOMAIN bit.v THEN StrOf(Get(bit, "text")) ELSE "")
    ELSE ""
\* "".join(text_bits)
RECURSIVE TextBits(_)
TextBits(bits) ==
    IF Len(bits) = 0 THEN "" ELSE BitText(Head(bits)) \o TextBits(Tail(bits))

\* c = msg.get("content"): c if it is a str, the merged text bits if it is
\* a list and they are not blank
MessageContent(c) ==
    IF IsStr(c) THEN c
    ELSE IF IsList(c) /\ Strip(TextBits(c.v)) # "" THEN PyStr(Strip(TextBits(c.v)))
    ELSE PyNone
ChoicesContent(choices) ==
    IF IsList(choices) /\ Truthy(choices) /\ IsDict(Get(choices.v[1], "message"))
    THEN MessageContent(Get(Get(choices.v[1], "message"), "content"))
    ELSE PyNone

_extract_chat_content(p) ==
    IF IsDict(p)
    THEN IF IsStr(Get(p, "content")) /\ Strip(Get(p, "content").v) # ""
         THEN Get(p, "content")
         ELSE ChoicesContent(Get(p, "choices"))
    ELSE PyNone

(***************************************************************************)
(* What the world outside may answer                                       *)
(***************************************************************************)
Raised == [raise |-> TRUE, status |-> 0, stdout |-> ""]
Printed(text) == [raise |-> FALSE, status |-> 0, stdout |-> text]
Replied(code, text) == [raise |-> FALSE, status |-> code, stdout |-> text]

\* The helper on "chat": a timeout, or its stdout.
ChatOutcomes ==
    { Raised,
      Printed("bridge: no reply"),
      Printed("[bridge] ready\n{\"ok\":true,\"content\":\"hi\",\"model\":\"m-sub\"}\n"),
      Printed("{\"ok\":true,\"content\":\"\"}"),
      Printed("{\"ok\":true,\"content\":\"hi\",\"detail\":\"session resumed\"}"),
      Printed("{\"ok\":false,\"error\":\" invalid_token_placeholder \"}"),
      Printed("{\"ok\":false,\"error\":\"CHAT_FAILED\",\"detail\":\"401 Unauthorized\"}"),
      Printed("{\"ok\":false,\"error\":\"CHAT_FAILED\",\"detail\":\"model overloaded\"}") }

\* The helper on "auth-token".
AuthOutcomes ==
    { Raised,
      Printed("opening browser\n{\"ok\":true,\"token\":\" tok B\\n\"}"),
      Printed("{\"ok\":true,\"token\":\"\"}"),
      Printed("{\"ok\":true}"),
      Printed("{\"ok\":true,\"token\":\"tok\\u0000C\"}"),
      Printed("{\"ok\":false,\"error\":\"AUTH_BOOTSTRAP_FAILED\"}") }

\* The keyed endpoint: a transport error, or a status and a body.
KeyedOutcomes ==
    { Raised,
      Replied(500, "{\"content\":\"ignored\"}"),
      Replied(200, "<html>"),
      Replied(200, "{\"content\":\"keyed hi\"}"),
      Replied(200, "{\"content\":\"  \",\"choices\":[{\"message\":{\"content\":\"\"}}]}"),
      Replied(200, "{\"choices\":[{\"message\":{\"content\":[{\"type\":\"text\",\"text\":\"a\"},{\"type\":\"image\"},{\"type\":\"text\",\"text\":\"b \"}]}}]}") }

\* The Ollama server on POST /api/generate.
OllamaOutcomes ==
    { Raised,
      Replied(404, "{\"error\":\"model not found\"}"),
      Replied(500, ""),
      Replied(200, "{\"response\":\"local hi\"}"),
      Replied(200, "{\"response\":\"\"}") }

\* genai generate_content: an error, or r.text.
GeminiOutcomes == { Raised, Printed("gemini hi"), Printed("") }

\* The tokens the login flow gives to the threads of a process: a new one
\* at every login, FreshTokens[w][n] at the n-th login of thread w.
FreshTokens == << <<"tokB", "tokD">>, <<"tokC", "tokE">> >>
FreshLogin(token) == Printed("{\"ok\":true,\"token\":\"" \o token \o "\"}")
FreshOutcomes == {FreshLogin(FreshTokens[w][n]) : w \in 1..2, n \in 1..2}

\* The `model` argument of call_puter_with_model.
ModelArgs == { PyNone, PyStr(" gpt-4.1-mini "), PyStr("claude-opus-4-6") }

\* r.stdout of every run of the helper, parsed as _run_puter_node_bridge
\* parses it (a table of ParseBridgeOutput over the outputs above).
ParsedOutput ==
    [text \in {o.stdout : o \in ChatOutcomes \cup AuthOutcomes \cup FreshOutcomes} |->
        ParseBridgeOutput(text)]

(***************************************************************************)
(* llm_adapters.py: the call in progress                                   *)
(***************************************************************************)
\* The parts of the state a call changes, as one record.
Cur ==
    [environ |-> environ, sdk |-> sdk, pc |-> pc, entry |-> entry,
     candidates |-> candidates, ci |-> ci, payload |-> payload,
     bootFrom |-> bootFrom, result |-> result, log |-> log]

Become(m) ==
    /\ environ' = m.environ
    /\ sdk' = m.sdk
    /\ pc' = m.pc
    /\ entry' = m.entry
    /\ candidates' = m.candidates
    /\ ci' = m.ci
    /\ payload' = m.payload
    /\ bootFrom' = m.bootFrom
    /\ result' = m.result
    /\ log' = m.log
    /\ UNCHANGED <<PUTER_KEY, PUTER_DEFAULT_MODEL, PUTER_FALLBACK_MODEL,
                   OLLAMA_MODEL, bridgeExists, geminiEnabled>>

\* An entry of the log.  op is "bootstrap" (a call of
\* _bootstrap_puter_token), "bridge" (a call of _run_puter_node_bridge),
\* "probe", "npm", "helper" (the subprocesses started), "keyed", "ollama"
\* (the HTTP posts) or "gemini".  ci is the candidate the dispatcher is at;
\* a call is logged with what it was given and what it returned: cls and
\* content for a reply, tokA for the active token at the call; a helper with
\* the two token keys of its environment, tokA and tokB.
Ev(op, c, sub, model) ==
    [op |-> op, ci |-> c, sub |-> sub, model |-> model, force |-> FALSE,
     require |-> FALSE, tokA |-> "", tokB |-> "", cls |-> "", content |-> "",
     timeout |-> 0]
Logged(m, e) == [m EXCEPT !.log = Append(@, e)]
\* The entry e of a call that returned resp to a caller testing `if resp`.
Answered(e, resp) ==
    [e EXCEPT !.cls = IF Truthy(resp) THEN "success" ELSE "fail",
              !.content = IF Truthy(resp) THEN StrOf(resp) ELSE ""]

\* What a reply of the bridge amounts to.
ReplyClass(p) ==
    IF IsNone(p) THEN "none"
    ELSE IF IsChatSuccess(p)
    THEN (IF _is_bridge_auth_failure(p) THEN "success_auth" ELSE "success")
    ELSE IF _is_bridge_auth_failure(p) THEN "authfail" ELSE "fail"
ReplyContent(p) == IF IsChatSuccess(p) THEN StrOf(Get(p, "content")) ELSE ""

\* return value: back to the caller, the locals dropped.
Finish(m, value) ==
    [m EXCEPT !.pc = "done", !.result = value, !.ci = 0, !.payload = PyNone,
              !.bootFrom = ""]

\* An exception leaves the call in progress and reaches the caller.
Escape(m) ==
    [m EXCEPT !.pc = "raised", !.result = <<>>, !.ci = 0, !.payload = PyNone,
              !.bootFrom = ""]

\* An exception raised under call_puter_with_model: no frame between the line
\* that raised and the caller catches it, and of the callers only the
\* handshake of puter-login (lines 572-576) does.
Raise(m) ==
    IF m.entry = "command_puter_login" THEN Finish(m, <<PyNone, PyNone>>)
    ELSE Escape(m)

PUTER_AUTO_INSTALL_SDK == TRUE

\* _ensure_puter_sdk(), where the SDK is in state s and the dispatcher at
\* candidate c: the state of the SDK afterwards, the subprocesses started
\* and the answer.
_ensure_puter_sdk(s, c) ==
    IF ~bridgeExists THEN [sdk |-> s, evs |-> <<>>, ok |-> FALSE]
    ELSE IF s = "ok" THEN [sdk |-> s, evs |-> <<Ev("probe", c, "", "")>>, ok |-> TRUE]
    ELSE IF ~PUTER_AUTO_INSTALL_SDK
    THEN [sdk |-> s, evs |-> <<Ev("probe", c, "", "")>>, ok |-> FALSE]
    ELSE [sdk |-> IF s = "installable" THEN "ok" ELSE s,
          evs |-> <<Ev("probe", c, "", ""), Ev("npm", c, "", ""),
                    Ev("probe", c, "", "")>>,
          ok |-> s = "installable"]

\* The value of `name` in the environment handed to the helper: os.environ
\* copied, then env.setdefault(name, token) if token ("" where unset).
HelperEnv(e, name, token) == IF name \in DOMAIN e THEN e[name] ELSE token

\* _run_puter_node_bridge returns ret, having started the subprocesses evs.
BridgeReturn(m, call, s, evs, ret) ==
    [m |-> [m EXCEPT !.sdk = s,
                     !.log = (@ \o <<[call EXCEPT !.cls = ReplyClass(ret),
                                                  !.content = ReplyContent(ret)]>>)
                                \o evs],
     ret |-> ret]

\* int(s) for a decimal integer with or without a sign.
RECURSIVE DigitsValue(_, _)
DigitsValue(s, acc) ==
    IF s = "" THEN acc
    ELSE DigitsValue(SubSeq(s, 2, Len(s)), 10 * acc + DigitOf[Ch(s, 1)])
IntOfStripped(t) ==
    IF StartsWith(t, "-") THEN 0 - DigitsValue(SubSeq(t, 2, Len(t)), 0)
    ELSE IF StartsWith(t, "+") THEN DigitsValue(SubSeq(t, 2, Len(t)), 0)
    ELSE DigitsValue(t, 0)
IntOf(s) == CHOOSE n \in {IntOfStripped(t) : t \in {Strip(s)}} : TRUE

\* PUTER_TIMEOUT = int(os.getenv("PUTER_TIMEOUT", "90")), read at import; no
\* line of the program assigns that name in os.environ afterwards.
PUTER_TIMEOUT(e) == IntOf(getenv_default(e, "PUTER_TIMEOUT", "90"))
\* timeout=max(15, PUTER_TIMEOUT + 10), line 273
BridgeTimeout(e) ==
    IF PUTER_TIMEOUT(e) + 10 > 15 THEN PUTER_TIMEOUT(e) + 10 ELSE 15

\* _run_puter_node_bridge from `env = os.environ.copy()` on, where the
\* helper, once started, ends as `o` says.
HelperRun(m, call, s, o) ==
    IF ~s.ok THEN BridgeReturn(m, call, s.sdk, s.evs, PyNone)
    ELSE BridgeReturn(m, call, s.sdk,
             Append(s.evs,
                 [Ev("helper", call.ci, call.sub, call.model) EXCEPT
                     !.tokA = HelperEnv(m.environ, "puterAuthToken", call.tokA),
                     !.tokB = HelperEnv(m.environ, "PUTER_AUTH_TOKEN", call.tokA),
                     !.timeout = BridgeTimeout(m.environ)]),
             IF o.raise THEN PyNone ELSE ParsedOutput[o.stdout])

\* A mutation: the helper is started whether or not a token is there.
BridgeCall_NoTokenCheck(m, call, o) ==
    HelperRun(m, call, _ensure_puter_sdk(m.sdk, m.ci), o)

\* _run_puter_node_bridge after `token = _puter_token()`; call.tokA is token.
BridgeCall(m, call, o) ==
    IF call.require /\ call.tokA = ""
    THEN BridgeReturn(m, call, m.sdk, <<>>, PyNone)
    ELSE HelperRun(m, call, _ensure_puter_sdk(m.sdk, m.ci), o)

\* _run_puter_node_bridge([sub, "--model", model, ...], require_token): the
\* state afterwards and the value returned.
RunNodeBridge(m, sub, model, require_token, o) ==
    BridgeCall(m, [Ev("bridge", m.ci, sub, model) EXCEPT
                      !.require = require_token,
                      !.tokA = _puter_token(m.environ)], o)

(***************************************************************************)
(* llm_adapters.py: call_puter_with_model, _run_puter_bridge_with_reauth,  *)
(* _bootstrap_puter_token and ask_router, from one external call to the    *)
(* next                                                                    *)
(***************************************************************************)
\* call_puter_with_model: the candidates resolved from `model` (a str or
\* None).
ResolveCandidates(model) ==
    LET selected == Strip(StrOf(PyOr(PyOr(model, PyStr(PUTER_DEFAULT_MODEL)),
                                     PyStr(""))))
        first == IF selected # "" THEN <<selected>> ELSE <<>>
        fallback == Strip(PUTER_FALLBACK_MODEL)
        both == IF fallback # "" /\ ~InSeq(fallback, first)
                THEN Append(first, fallback) ELSE first
    IN  IF Len(both) = 0 THEN <<"claude-opus-4-6">> ELSE both

\* A mutation: an unset QTM_LOCAL_ONLY is taken for "0".
local_only_UnsetIsOff(e) == getenv_default(e, "QTM_LOCAL_ONLY", "0") = "1"

\* local_only = os.getenv("QTM_LOCAL_ONLY", "1") == "1"
local_only(e) == getenv_default(e, "QTM_LOCAL_ONLY", "1") = "1"

\* A mutation: the local reply is returned under the remote provider's name.
AfterOllama_WrongProvider(m, resp) ==
    IF Truthy(resp) THEN Finish(m, <<resp, PyStr("puter")>>)
    ELSE IF ~local_only(m.environ) /\ geminiEnabled
    THEN [m EXCEPT !.pc = "gemini"]
    ELSE Finish(m, <<PyNone, PyStr("none")>>)

\* ask_router, after query_ollama returned resp.
AfterOllama(m, resp) ==
    IF Truthy(resp) THEN Finish(m, <<resp, PyStr("ollama")>>)
    ELSE IF ~local_only(m.environ) /\ geminiEnabled
    THEN [m EXCEPT !.pc = "gemini"]
    ELSE Finish(m, <<PyNone, PyStr("none")>>)

\* call_puter_with_model returns `pair` to its caller: to ask_router through
\* call_puter, or to the outside.
DispatchReturn(m, pair) ==
    IF m.entry = "ask_router"
    THEN IF Truthy(pair[1]) THEN Finish(m, <<pair[1], PyStr("puter")>>)
         ELSE [m EXCEPT !.pc = "ollama", !.ci = 0, !.payload = PyNone,
                        !.bootFrom = ""]
    ELSE Finish(m, pair)

RECURSIVE ReauthEnter(_)

\* The bridge loop moves on from candidates[ci].
NextCandidateBridge(m) ==
    IF m.ci < Len(m.candidates)
    THEN ReauthEnter([m EXCEPT !.ci = @ + 1, !.payload = PyNone, !.bootFrom = ""])
    ELSE DispatchReturn(m, <<PyNone, PyNone>>)

\* call_puter_with_model, the bridge loop after _run_puter_bridge_with_reauth
\* returned p for candidates[ci].
AfterReauth(m, p) ==
    IF ~IsDict(p) THEN NextCandidateBridge(m)
    ELSE IF Truthy(Get(p, "ok")) /\ Truthy(Get(p, "content"))
    THEN DispatchReturn(m,
             <<PyStr(StrOf(Get(p, "content"))),
               PyStr(StrOf(PyOr(Get(p, "model"), PyStr(m.candidates[m.ci]))))>>)
    ELSE NextCandidateBridge(m)

\* _bootstrap_puter_token returned v to the line that called it.
AfterBootstrap(m, v) ==
    CASE m.bootFrom = "l344" -> [m EXCEPT !.pc = "bridge1"]
      [] m.bootFrom = "l348" ->
            IF Truthy(v) THEN [m EXCEPT !.pc = "retry349"]
            ELSE AfterReauth(m, PyNone)
      [] m.bootFrom = "l353" ->
            IF Truthy(v) THEN [m EXCEPT !.pc = "retry354"]
            ELSE AfterReauth(m, m.payload)
      [] OTHER -> Finish(m, <<v>>)

\* A mutation: a cached token does not stop the login flow.
BootstrapBody_AlwaysLogin(m, force, existing) ==
    IF PUTER_KEY # "" THEN AfterBootstrap(m, PyNone)
    ELSE IF ~bridgeExists THEN AfterBootstrap(m, PyNone)
    ELSE [m EXCEPT !.pc = "auth_helper"]

\* _bootstrap_puter_token(force) up to its call of the helper, where
\* `existing` is what _puter_token() returns.
BootstrapBody(m, force, existing) ==
    IF PUTER_KEY # "" THEN AfterBootstrap(m, PyNone)
    ELSE IF ~bridgeExists THEN AfterBootstrap(m, PyNone)
    ELSE IF existing # "" /\ ~force THEN AfterBootstrap(m, PyStr(existing))
    ELSE [m EXCEPT !.pc = "auth_helper"]

\* _bootstrap_puter_token(force), called from line `from`.
Bootstrap(m, force, from) ==
    BootstrapBody(Logged([m EXCEPT !.bootFrom = from],
                         [Ev("bootstrap", m.ci, "", "") EXCEPT
                             !.force = force, !.tokA = _puter_token(m.environ)]),
                  force, _puter_token(m.environ))

\* _set_puter_token returned r: where it set the two names the log says so,
\* with the new token (tokA) and the one it replaced (tokB).
TokenSet(m, r) ==
    IF ~Truthy(r.ret) THEN m
    ELSE Logged([m EXCEPT !.environ = r.environ],
                [Ev("set_token", m.ci, "", "") EXCEPT
                    !.tokA = r.ret.v, !.tokB = _puter_token(m.environ)])

\* A mutation: _set_puter_token is called inside try/except, None on error.
BootstrapAfterHelper_Guarded(m, p) ==
    IF ~IsDict(p) THEN AfterBootstrap(m, PyNone)
    ELSE IF ~Truthy(Get(p, "ok")) THEN AfterBootstrap(m, PyNone)
    ELSE AfterBootstrap(
             TokenSet(m, _set_puter_token(m.environ, Get(p, "token"))),
             _set_puter_token(m.environ, Get(p, "token")).ret)

\* _bootstrap_puter_token after the helper returned p.
BootstrapAfterHelper(m, p) ==
    IF ~IsDict(p) THEN AfterBootstrap(m, PyNone)
    ELSE IF ~Truthy(Get(p, "ok")) THEN AfterBootstrap(m, PyNone)
    ELSE IF _set_puter_token(m.environ, Get(p, "token")).raise THEN Raise(m)
    ELSE AfterBootstrap(
             TokenSet(m, _set_puter_token(m.environ, Get(p, "token"))),
             _set_puter_token(m.environ, Get(p, "token")).ret)

\* _run_puter_bridge_with_reauth(argv) for candidates[ci], up to its first
\* call of the bridge.
ReauthEnter(m) ==
    IF ~bridgeExists THEN AfterReauth(m, PyNone)
    ELSE IF _puter_token(m.environ) = "" THEN Bootstrap(m, FALSE, "l344")
    ELSE [m EXCEPT !.pc = "bridge1"]

\* A mutation: an authentication failure is answered by calling the bridge
\* again, with no new login.
AfterFirstBridge_RetryPlain(m, p) ==
    IF IsNone(p) /\ _puter_token(m.environ) = ""
    THEN Bootstrap([m EXCEPT !.payload = p], TRUE, "l348")
    ELSE IF _is_bridge_auth_failure(p)
    THEN [m EXCEPT !.payload = p, !.pc = "bridge1"]
    ELSE AfterReauth(m, p)

\* A mutation: any reply that is no success is answered by a new login.
AfterFirstBridge_ReauthOnFailure(m, p) ==
    IF IsNone(p) /\ _puter_token(m.environ) = ""
    THEN Bootstrap([m EXCEPT !.payload = p], TRUE, "l348")
    ELSE IF _is_bridge_auth_failure(p) \/ ~IsChatSuccess(p)
    THEN Bootstrap([m EXCEPT !.payload = p], TRUE, "l353")
    ELSE AfterReauth(m, p)

\* _run_puter_bridge_with_reauth after its first call of the bridge
\* returned p.
AfterFirstBridge(m, p) ==
    IF IsNone(p) /\ _puter_token(m.environ) = ""
    THEN Bootstrap([m EXCEPT !.payload = p], TRUE, "l348")
    ELSE IF _is_bridge_auth_failure(p)
    THEN Bootstrap([m EXCEPT !.payload = p], TRUE, "l353")
    ELSE AfterReauth(m, p)

\* A mutation: a retry that fails on authentication again is followed by
\* another login and another retry.
AfterRetry354_Again(m, retry) ==
    IF _is_bridge_auth_failure(retry)
    THEN Bootstrap([m EXCEPT !.payload = retry], TRUE, "l353")
    ELSE AfterReauth(m, IF ~IsNone(retry) THEN retry ELSE m.payload)

\* _run_puter_bridge_with_reauth after the retry of line 354 returned retry.
AfterRetry354(m, retry) ==
    AfterReauth(m, IF ~IsNone(retry) THEN retry ELSE m.payload)

\* call_puter_with_model from its first line.
StartDispatch(m, model) ==
    IF PUTER_KEY # ""
    THEN [m EXCEPT !.candidates = ResolveCandidates(model), !.ci = 1, !.pc = "keyed"]
    ELSE ReauthEnter([m EXCEPT !.candidates = ResolveCandidates(model), !.ci = 1])

\* A mutation: a keyed call that fails falls through to the bridge call for
\* the same candidate.
AfterKeyed_SameCandidate(m, content) ==
    IF Truthy(content)
    THEN DispatchReturn(m, <<content, PyStr(m.candidates[m.ci])>>)
    ELSE ReauthEnter(m)

\* call_puter_with_model, the keyed loop after the post for candidates[ci]
\* gave `content` (None when it raised).
AfterKeyed(m, content) ==
    IF Truthy(content)
    THEN DispatchReturn(m, <<content, PyStr(m.candidates[m.ci])>>)
    ELSE IF m.ci < Len(m.candidates) THEN [m EXCEPT !.ci = @ + 1]
    ELSE ReauthEnter([m EXCEPT !.ci = 1])

\* r.raise_for_status(); _extract_chat_content(r.json()), None on any error.
KeyedJson(r) == IF ~r.ok THEN PyNone ELSE _extract_chat_content(r.v)
KeyedContent(o) ==
    IF o.raise \/ o.status >= 400 THEN PyNone ELSE KeyedJson(JsonLoads(o.stdout))

\* The keyed post for candidates[ci] is answered.
KeyedAnswered(m, content) ==
    AfterKeyed(Logged(m, [Ev("keyed", m.ci, "", m.candidates[m.ci]) EXCEPT
                             !.cls = IF Truthy(content) THEN "success" ELSE "fail",
                             !.content = IF Truthy(content) THEN StrOf(content)
                                         ELSE ""]),
               content)

\* One requests.post of query_ollama answered by o: r.raise_for_status();
\* r.json().get("response"), None on any error.
OllamaJson(r) == IF ~r.ok \/ ~IsDict(r.v) THEN PyNone ELSE Get(r.v, "response")
OllamaResponse(o) ==
    IF o.raise \/ o.status >= 400 THEN PyNone ELSE OllamaJson(JsonLoads(o.stdout))

\* A mutation: the second post is made after any HTTP error of the first.
query_ollama_RetryAnyError(m, model, o1, o2) ==
    LET chosen == StrOf(PyOr(model, PyStr(OLLAMA_MODEL)))
    IN  IF ~o1.raise /\ o1.status >= 400 /\ chosen # "llama3:latest"
        THEN [m |-> Logged(Logged(m, Answered(Ev("ollama", 0, "", chosen), PyNone)),
                           Answered(Ev("ollama", 0, "", "llama3:latest"),
                                    OllamaResponse(o2))),
              ret |-> OllamaResponse(o2)]
        ELSE [m |-> Logged(m, Answered(Ev("ollama", 0, "", chosen),
                                       OllamaResponse(o1))),
              ret |-> OllamaResponse(o1)]

\* query_ollama(prompt, model): the first post answered by o1, the second,
\* if it is made, by o2.
query_ollama(m, model, o1, o2) ==
    LET chosen == StrOf(PyOr(model, PyStr(OLLAMA_MODEL)))
    IN  IF ~o1.raise /\ o1.status = 404 /\ chosen # "llama3:latest"
        THEN [m |-> Logged(Logged(m, Answered(Ev("ollama", 0, "", chosen), PyNone)),
                           Answered(Ev("ollama", 0, "", "llama3:latest"),
                                    OllamaResponse(o2))),
              ret |-> OllamaResponse(o2)]
        ELSE [m |-> Logged(m, Answered(Ev("ollama", 0, "", chosen),
                                       OllamaResponse(o1))),
              ret |-> OllamaResponse(o1)]

\* GeminiAdapter.ask(prompt)
GeminiAsk(o) == IF o.raise THEN PyNone ELSE PyStr(o.stdout)

\* ask_router after _gemini.ask returned resp.
AfterGemini(m, resp) ==
    IF Truthy(resp) THEN Finish(m, <<resp, PyStr("gemini")>>)
    ELSE Finish(m, <<PyNone, PyStr("none")>>)

(***************************************************************************)
(* llm_adapters.py: the actions                                            *)
(***************************************************************************)
Idle == pc \in {"idle", "done", "raised"}

\* The state at the first line of a call of `name`.
Fresh(name) ==
    [Cur EXCEPT !.entry = name, !.candidates = <<>>, !.ci = 0,
                !.payload = PyNone, !.bootFrom = "", !.result = <<>>,
                !.log = <<>>]

\* call_puter_with_model(prompt, model)
CallDispatch ==
    /\ Idle
    /\ \E model \in ModelArgs :
           Become(StartDispatch(Fresh("call_puter_with_model"), model))
    /\ UNCHANGED <<routeVars, parseVars, loginVars, sharedVars, toolVars>>

\* ask_router(prompt), up to its first external call
CallAskRouter ==
    /\ Idle
    /\ Become(IF local_only(environ)
              THEN [Fresh("ask_router") EXCEPT !.pc = "ollama"]
              ELSE StartDispatch(Fresh("ask_router"), PyNone))
    /\ UNCHANGED <<routeVars, parseVars, loginVars, sharedVars, toolVars>>

\* _bootstrap_puter_token(force), up to its call of the helper
CallBootstrap ==
    /\ Idle
    /\ \E force \in BOOLEAN :
           Become(Bootstrap(Fresh("_bootstrap_puter_token"), force, "top"))
    /\ UNCHANGED <<routeVars, parseVars, loginVars, sharedVars, toolVars>>

\* requests.post(PUTER_API, ...) for candidates[ci]
KeyedPost ==
    /\ pc = "keyed"
    /\ \E o \in KeyedOutcomes : Become(KeyedAnswered(Cur, KeyedContent(o)))
    /\ UNCHANGED <<routeVars, parseVars, loginVars, sharedVars, toolVars>>

\* _run_puter_node_bridge(["chat", ...], require_token=True), line 346
BridgeFirst ==
    /\ pc = "bridge1"
    /\ \E o \in ChatOutcomes :
           \E r \in {RunNodeBridge(Cur, "chat", candidates[ci], TRUE, o)} :
               Become(AfterFirstBridge(r.m, r.ret))
    /\ UNCHANGED <<routeVars, parseVars, loginVars, sharedVars, toolVars>>

\* _run_puter_node_bridge(["chat", ...], require_token=True), line 349
BridgeRetry349 ==
    /\ pc = "retry349"
    /\ \E o \in ChatOutcomes :
           \E r \in {RunNodeBridge(Cur, "chat", candidates[ci], TRUE, o)} :
               Become(AfterReauth(r.m, r.ret))
    /\ UNCHANGED <<routeVars, parseVars, loginVars, sharedVars, toolVars>>

\* _run_puter_node_bridge(["chat", ...], require_token=True), line 354
BridgeRetry354 ==
    /\ pc = "retry354"
    /\ \E o \in ChatOutcomes :
           \E r \in {RunNodeBridge(Cur, "chat", candidates[ci], TRUE, o)} :
               Become(AfterRetry354(r.m, r.ret))
    /\ UNCHANGED <<routeVars, parseVars, loginVars, sharedVars, toolVars>>

\* _run_puter_node_bridge(["auth-token"], require_token=False), line 331
AuthHelper ==
    /\ pc = "auth_helper"
    /\ \E o \in AuthOutcomes :
           \E r \in {RunNodeBridge(Cur, "auth-token", "", FALSE, o)} :
               Become(BootstrapAfterHelper(r.m, r.ret))
    /\ UNCHANGED <<routeVars, parseVars, loginVars, sharedVars, toolVars>>

\* query_ollama(prompt) of ask_router
Ollama ==
    /\ pc = "ollama"
    /\ \E o1 \in OllamaOutcomes, o2 \in OllamaOutcomes :
           \E r \in {query_ollama(Cur, PyNone, o1, o2)} :
               Become(AfterOllama(r.m, r.ret))
    /\ UNCHANGED <<routeVars, parseVars, loginVars, sharedVars, toolVars>>

\* _gemini.ask(prompt) of ask_router
Gemini ==
    /\ pc = "gemini"
    /\ \E o \in GeminiOutcomes :
           Become(AfterGemini(Logged(Cur, Answered(Ev("gemini", 0, "", ""),
                                                   GeminiAsk(o))),
                              GeminiAsk(o)))
    /\ UNCHANGED <<routeVars, parseVars, loginVars, sharedVars, toolVars>>

(***************************************************************************)
(* route_prompt.py: _run_with_fallbacks                                    *)
(***************************************************************************)
MaxModels == 3
RouteModels == {"codestral-2508", "claude-opus-4-6", "ollama/llama3:latest"}
ModelLists == UNION {[1..n -> RouteModels] : n \in 0..MaxModels}

\* What _post_json may return for POST /ask.
AskReplies ==
    { PyDict(("ok" :> PyBool(TRUE)) @@ ("provider" :> PyStr("puter"))
             @@ ("model" :> PyStr("m-used")) @@ ("reply" :> PyStr("hello"))),
      PyDict(("ok" :> PyBool(TRUE)) @@ ("provider" :> PyStr("ollama"))
             @@ ("reply" :> PyStr("local hello"))),
      PyDict(("ok" :> PyBool(FALSE)) @@ ("error" :> PyStr("HTTP 503"))
             @@ ("detail" :> PyStr("No response"))),
      PyDict("detail" :> PyStr("Not Found")) }

NoResult ==
    [ok |-> FALSE, model_used |-> PyNone, provider |-> PyNone,
     reply |-> PyNone, fallback_used |-> FALSE, error |-> ""]
AllFailed == [NoResult EXCEPT !.error = "all_candidates_failed"]

\* _run_single: out.setdefault("ok", False)
_run_single(reply) ==
    IF "ok" \in DOMAIN reply.v THEN reply
    ELSE PyDict(("ok" :> PyBool(FALSE)) @@ reply.v)

\* The entry _run_with_fallbacks appends for model m and reply o.
Attempt(m, o) ==
    [model |-> m, ok |-> Truthy(Get(o, "ok")), provider |-> Get(o, "provider"),
     error |-> PyOr(Get(o, "error"), Get(o, "detail"))]

\* A mutation: the loop goes on after a success and returns the last one.
FallbackStep_NoStop(ms, i, att, reply) ==
    LET o == _run_single(reply)
        att2 == Append(att, Attempt(ms[i], o))
    IN  IF i < Len(ms)
        THEN [attempts |-> att2, mi |-> i + 1, out |-> o, rpc |-> "loop",
              rresult |-> NoResult]
        ELSE IF Truthy(Get(o, "ok"))
        THEN [attempts |-> att2, mi |-> i, out |-> o, rpc |-> "done",
              rresult |-> [ok |-> TRUE,
                           model_used |-> PyOr(Get(o, "model"), PyStr(ms[i])),
                           provider |-> Get(o, "provider"),
                           reply |-> IF "reply" \in DOMAIN o.v
                                     THEN Get(o, "reply") ELSE PyStr(""),
                           fallback_used |-> ms[i] # ms[1], error |-> ""]]
        ELSE [attempts |-> att2, mi |-> i, out |-> o, rpc |-> "done",
              rresult |-> AllFailed]

\* One turn of the loop of _run_with_fallbacks: models ms, position i, the
\* attempts so far, and the reply of POST /ask.
FallbackStep(ms, i, att, reply) ==
    LET o == _run_single(reply)
        att2 == Append(att, Attempt(ms[i], o))
    IN  IF Truthy(Get(o, "ok"))
        THEN [attempts |-> att2, mi |-> i, out |-> o, rpc |-> "done",
              rresult |-> [ok |-> TRUE,
                           model_used |-> PyOr(Get(o, "model"), PyStr(ms[i])),
                           provider |-> Get(o, "provider"),
                           reply |-> IF "reply" \in DOMAIN o.v
                                     THEN Get(o, "reply") ELSE PyStr(""),
                           fallback_used |-> ms[i] # ms[1], error |-> ""]]
        ELSE IF i < Len(ms)
        THEN [attempts |-> att2, mi |-> i + 1, out |-> o, rpc |-> "loop",
              rresult |-> NoResult]
        ELSE [attempts |-> att2, mi |-> i, out |-> o, rpc |-> "done",
              rresult |-> AllFailed]

\* _run_with_fallbacks(base_url, task, models), up to the first POST
CallRunWithFallbacks ==
    /\ rpc \in {"idle", "done"}
    /\ \E ms \in ModelLists :
           /\ models' = ms
           /\ mi' = 1
           /\ attempts' = <<>>
           /\ out' = PyNone
           /\ rpc' = IF Len(ms) = 0 THEN "done" ELSE "loop"
           /\ rresult' = IF Len(ms) = 0 THEN AllFailed ELSE NoResult
    /\ UNCHANGED <<llmVars, parseVars, loginVars, sharedVars, toolVars>>

\* out = _run_single(base_url, task, m) and the rest of the loop body
RunSingle ==
    /\ rpc = "loop"
    /\ \E reply \in AskReplies :
           LET n == FallbackStep(models, mi, attempts, reply)
           IN  /\ attempts' = n.attempts
               /\ mi' = n.mi
               /\ out' = n.out
               /\ rpc' = n.rpc
               /\ rresult' = n.rresult
    /\ UNCHANGED <<models, llmVars, parseVars, loginVars, sharedVars, toolVars>>

(***************************************************************************)
(* _run_puter_node_bridge on the outputs of the helper                     *)
(***************************************************************************)
MaxLines == 3
HelperLines ==
    { "log line",
      "",
      "{\"ok\": true, \"content\": \"hi\"}",
      "  {\"ok\":false,\"error\":\"X\",\"n\":[1,null]}  ",
      "{not json}",
      "{\"k\":",
      "\"v\"}" }
LineSeqs == UNION {[1..n -> HelperLines] : n \in 0..MaxLines}

RECURSIVE Join(_, _)
Join(q, sep) ==
    IF Len(q) = 0 THEN ""
    ELSE IF Len(q) = 1 THEN q[1]
    ELSE q[1] \o sep \o Join(Tail(q), sep)

\* The helper ends having printed these lines.
HelperPrints ==
    /\ ppc = "idle"
    /\ \E ls \in LineSeqs, sep \in {"\n", "\r\n"}, end \in {"", "\n"} :
           /\ plines' = ls
           /\ stdout' = Join(ls, sep) \o end
    /\ ppc' = "start"
    /\ parsed' = PyNone
    /\ UNCHANGED <<llmVars, routeVars, loginVars, sharedVars, toolVars>>

\* _run_puter_node_bridge from `out = (r.stdout or "").strip()` on
ParseOutput ==
    /\ ppc = "start"
    /\ parsed' = ParseBridgeOutput(stdout)
    /\ ppc' = "done"
    /\ UNCHANGED <<plines, stdout, llmVars, routeVars, loginVars, sharedVars, toolVars>>

(***************************************************************************)
(* cognitive_system.py: the env file, the fingerprint and the token of a   *)
(* paste                                                                   *)
(***************************************************************************)
\* hashlib.sha256(token.encode("utf-8")).hexdigest(): the digest of t is
\* written sha256(t), so that two digests are equal exactly where the tokens
\* are.
_token_sha256(token) == "sha256(" \o token \o ")"

\* s.split(sep, 1) where sep is in s: the parts before and after the first.
FirstIndex(s, sep) ==
    CHOOSE i \in 1..(Len(s) - Len(sep) + 1) :
        /\ SubSeq(s, i, i + Len(sep) - 1) = sep
        /\ \A k \in 1..(i - 1) : SubSeq(s, k, k + Len(sep) - 1) # sep
Before(s, sep) == SubSeq(s, 1, FirstIndex(s, sep) - 1)
After(s, sep) == SubSeq(s, FirstIndex(s, sep) + Len(sep), Len(s))

\* s.strip("'\"")
RECURSIVE StripQuotes(_)
StripQuotes(s) ==
    IF Len(s) > 0 /\ Ch(s, 1) \in {"'", "\""} THEN StripQuotes(SubSeq(s, 2, Len(s)))
    ELSE IF Len(s) > 0 /\ Ch(s, Len(s)) \in {"'", "\""}
    THEN StripQuotes(SubSeq(s, 1, Len(s) - 1))
    ELSE s

\* A mutation: the pair is appended whether or not the key has a line.
UpsertLines_AlwaysAppend(lines, key, value) ==
    RStrip(Join(Append(lines, key \o "=" \o value), "\n")) \o "\n"

\* _upsert_env_var from `out = []` on: every line of the key replaced, the
\* pair appended if there was none, the text written.
UpsertLines(lines, key, value) ==
    RStrip(Join(IF \E i \in DOMAIN lines : StartsWith(Strip(lines[i]), key \o "=")
                THEN [i \in DOMAIN lines |->
                         IF StartsWith(Strip(lines[i]), key \o "=")
                         THEN key \o "=" \o value ELSE lines[i]]
                ELSE Append(lines, key \o "=" \o value),
                "\n")) \o "\n"

\* A byte that is no UTF-8, as the texts of this model have it.
BadByte == "\\xe9"
\* Lines 355-360: the lines of the file, none where read_text raises.
ReadLines(text) == IF Contains(text, BadByte) THEN <<>> ELSE SplitLines(text)

\* _upsert_env_var(env_path, key, value), text being what the file holds:
\* the text it holds afterwards.
_upsert_env_var(text, key, value) == UpsertLines(ReadLines(text), key, value)

\* One line of _load_env_fallback: os.environ.setdefault(key, val).
LoadLine(e, s) ==
    IF s = "" \/ StartsWith(s, "#") \/ ~Contains(s, "=") THEN e
    ELSE IF Strip(Before(s, "=")) = "" THEN e
    ELSE IF Strip(Before(s, "=")) \in DOMAIN e THEN e
    ELSE setenv(e, Strip(Before(s, "=")), StripQuotes(Strip(After(s, "="))))

\* _load_env_fallback(path) at import, the file holding these lines.
RECURSIVE LoadLines(_, _)
LoadLines(e, lines) ==
    IF Len(lines) = 0 THEN e
    ELSE LoadLines(LoadLine(e, Strip(Head(lines))), Tail(lines))

\* command_puter_login, the loop over the lines of llm/.env: the first token
\* that is not empty, "" if there is none.
RECURSIVE FileToken(_)
FileTokenAt(lines, s) ==
    IF s = "" \/ StartsWith(s, "#") \/ ~Contains(s, "=") THEN FileToken(Tail(lines))
    ELSE IF Strip(Before(s, "=")) \notin {"PUTER_AUTH_TOKEN", "puterAuthToken"}
    THEN FileToken(Tail(lines))
    ELSE IF RemoveWs(StripQuotes(Strip(After(s, "=")))) = ""
    THEN FileToken(Tail(lines))
    ELSE RemoveWs(StripQuotes(Strip(After(s, "="))))
FileToken(lines) ==
    IF Len(lines) = 0 THEN "" ELSE FileTokenAt(lines, Strip(Head(lines)))

\* urllib.parse.unquote, for the escapes of the characters U+0020 to U+007E
\* but U+0060; an escape of any other byte is left as it is written.
AsciiLow ==
    " !\"#$%&'()*+,-./0123456789:;<=>?@ABCDEFGHIJKLMNOPQRSTUVWXYZ[\\]^_"
AsciiHigh == "abcdefghijklmnopqrstuvwxyz{|}~"
HexDigits == "0123456789abcdef"
HexOf(c) ==
    IF \E d \in 1..Len(HexDigits) : Ch(HexDigits, d) = Lower(c)
    THEN (CHOOSE d \in 1..Len(HexDigits) : Ch(HexDigits, d) = Lower(c)) - 1
    ELSE -1
RECURSIVE Unquote(_)
UnquoteAt(s, code) ==
    IF HexOf(At(s, 2)) >= 0 /\ HexOf(At(s, 3)) >= 0 /\ code >= 32 /\ code <= 95
    THEN Ch(AsciiLow, code - 31) \o Unquote(SubSeq(s, 4, Len(s)))
    ELSE IF HexOf(At(s, 2)) >= 0 /\ HexOf(At(s, 3)) >= 0 /\ code >= 97 /\ code <= 126
    THEN Ch(AsciiHigh, code - 96) \o Unquote(SubSeq(s, 4, Len(s)))
    ELSE "%" \o Unquote(SubSeq(s, 2, Len(s)))
Unquote(s) ==
    IF s = "" THEN ""
    ELSE IF Ch(s, 1) = "%" THEN UnquoteAt(s, 16 * HexOf(At(s, 2)) + HexOf(At(s, 3)))
    ELSE Ch(s, 1) \o Unquote(SubSeq(s, 2, Len(s)))

\* nv[1].replace("+", " ")
RECURSIVE PlusToSpace(_)
PlusToSpace(s) ==
    IF s = "" THEN ""
    ELSE (IF Ch(s, 1) = "+" THEN " " ELSE Ch(s, 1)) \o PlusToSpace(SubSeq(s, 2, Len(s)))

\* urllib.parse.parse_qs(qs).get(key, [""])[0]: the first value of key that
\* is not blank, "" if there is none.
RECURSIVE QueryValue(_, _)
QueryPair(pair, rest, key) ==
    IF /\ Contains(pair, "=")
       /\ After(pair, "=") # ""
       /\ Unquote(PlusToSpace(Before(pair, "="))) = key
    THEN Unquote(PlusToSpace(After(pair, "=")))
    ELSE QueryValue(rest, key)
QueryValue(qs, key) ==
    IF qs = "" THEN ""
    ELSE IF Contains(qs, "&") THEN QueryPair(Before(qs, "&"), After(qs, "&"), key)
    ELSE QueryPair(qs, "", key)

\* s.lstrip("#")
RECURSIVE LStripHash(_)
LStripHash(s) ==
    IF Len(s) > 0 /\ Ch(s, 1) = "#" THEN LStripHash(SubSeq(s, 2, Len(s))) ELSE s

\* urlparse(raw).query and urlparse(raw).fragment
UrlFragment(raw) == IF Contains(raw, "#") THEN After(raw, "#") ELSE ""
UrlNoFragment(raw) == IF Contains(raw, "#") THEN Before(raw, "#") ELSE raw
UrlQuery(raw) ==
    IF Contains(UrlNoFragment(raw), "?") THEN After(UrlNoFragment(raw), "?") ELSE ""

\* _extract_puter_token from `parsed = urlparse(raw)` on: the loop over the
\* keys of the query (or of the fragment); "" stands for None.
RECURSIVE TokenOfKeys(_, _)
TokenOfKeys(qs, keys) ==
    IF Len(keys) = 0 THEN [found |-> FALSE, t |-> ""]
    ELSE IF QueryValue(qs, Head(keys)) # ""
    THEN [found |-> TRUE, t |-> RemoveWs(Unquote(QueryValue(qs, Head(keys))))]
    ELSE TokenOfKeys(qs, Tail(keys))
UrlToken(raw) ==
    IF TokenOfKeys(UrlQuery(raw), <<"puterAuthToken", "token", "authToken">>).found
    THEN TokenOfKeys(UrlQuery(raw), <<"puterAuthToken", "token", "authToken">>).t
    ELSE TokenOfKeys(LStripHash(UrlFragment(raw)),
                     <<"puterAuthToken", "token", "authToken">>).t

\* _extract_puter_token(text) after `raw = (text or "").strip()`; "" stands
\* for None.
ExtractRaw(raw) ==
    IF raw = "" THEN ""
    ELSE IF /\ Contains(raw, "=") /\ ~Contains(raw, "http")
            /\ Strip(Before(raw, "=")) \in
                   {"PUTER_AUTH_TOKEN", "puterAuthToken", "token", "authToken"}
    THEN RemoveWs(Strip(After(raw, "=")))
    ELSE IF /\ ~Contains(raw, "http") /\ ~Contains(raw, "puterAuthToken=")
            /\ ~Contains(raw, "PUTER_AUTH_TOKEN=") /\ ~Contains(raw, "token=")
    THEN RemoveWs(raw)
    ELSE UrlToken(raw)
_extract_puter_token(text) == ExtractRaw(Strip(text))

(***************************************************************************)
(* cognitive_system.py: command_puter_login and                            *)
(* _get_puter_token_via_node_sdk, from one external call to the next       *)
(***************************************************************************)
\* The command in progress: the call, the text of llm/.env and the stores
\* made so far.
LoginCur == [m |-> Cur, file |-> envFile, stores |-> stores]

\* command_puter_login returns.
LoginReturn(L) == [L EXCEPT !.m = Finish(L.m, <<>>)]

\* Lines 569-576: call_puter_with_model("handshake check", model=model).
Handshake(m) ==
    StartDispatch(m, PyStr(getenv_default(m.environ, "PUTER_DEFAULT_MODEL",
                                          "claude-opus-4-6")))

\* Lines 554-556: the three assignments to os.environ.
StoreEnv(e, token) ==
    setenv(setenv(setenv(e, "PUTER_AUTH_TOKEN", token), "puterAuthToken", token),
           "PUTER_TOKEN_SHA256", _token_sha256(token))

\* Lines 559-560: the token and its fingerprint upserted.
SavedToken(file, token) ==
    _upsert_env_var(_upsert_env_var(file, "PUTER_AUTH_TOKEN", token),
                    "PUTER_TOKEN_SHA256", _token_sha256(token))

\* Lines 558-567: what llm/.env holds after the upserts, e being os.environ.
SavedFile(file, e, token) ==
    IF "PUTER_DEFAULT_MODEL" \in DOMAIN e THEN SavedToken(file, token)
    ELSE _upsert_env_var(SavedToken(file, token), "PUTER_DEFAULT_MODEL",
                         "claude-opus-4-6")

\* The stores made, newest first, the last two kept.
Stored(st, token, file) ==
    SubSeq(<<[token |-> token, file |-> file, hash |-> _token_sha256(token)]>> \o st,
           1, IF Len(st) = 0 THEN 1 ELSE 2)

\* Lines 554-576, file being what the upserts leave in llm/.env: the token
\* is stored and the handshake begins.
LoginStored(L, token, file) ==
    [m |-> Handshake(Logged([L.m EXCEPT !.environ = StoreEnv(@, token)],
                            [Ev("store", 0, "", "") EXCEPT
                                !.tokA = token,
                                !.tokB = _puter_token(L.m.environ)])),
     file |-> file,
     stores |-> Stored(L.stores, token, file)]

\* Lines 549-576, token being a token: the first assignment raises out of the
\* command, or the token is stored.
LoginStore(L, token) ==
    IF setenv_raises(token) THEN [L EXCEPT !.m = Escape(L.m)]
    ELSE LoginStored(L, token, SavedFile(L.file, L.m.environ, token))

\* Lines 545-547, token being what the paste gave ("" for None).
LoginWithToken(L, token) ==
    IF token = "" THEN LoginReturn(L) ELSE LoginStore(L, token)

\* Line 526 on, token being what the lines above gave ("" for None or "").
LoginAfterSdk(L, token) ==
    IF token = "" THEN [L EXCEPT !.m.pc = "login_input"] ELSE LoginStore(L, token)

\* _get_puter_token_via_node_sdk up to its first subprocess.
SdkEnter(L) ==
    IF getenv_default(L.m.environ, "PUTER_LOGIN_DISABLE_SDK", "0") = "1"
    THEN LoginAfterSdk(L, "")
    ELSE IF bridgeExists THEN [L EXCEPT !.m.pc = "login_sdk"]
    ELSE [L EXCEPT !.m.pc = "login_require"]

\* Lines 520-524.
LoginAfterArg(L, token, manual) ==
    IF token = "" /\ ~manual THEN SdkEnter(L) ELSE LoginAfterSdk(L, token)

\* Line 493: existing_token, read from os.environ.
ExistingEnvToken(e) ==
    RemoveWs(StrOf(PyOr(PyOr(getenv(e, "PUTER_AUTH_TOKEN"),
                             getenv(e, "puterAuthToken")), PyStr(""))))

\* Lines 504-505: the token found in llm/.env set in os.environ.
WithFileToken(L, token) ==
    [L EXCEPT !.m.environ = setenv(setenv(@, "PUTER_AUTH_TOKEN", token),
                                   "puterAuthToken", token)]

\* Lines 492-516: puter-login with no argument.
LoginNoArg(L, manual) ==
    IF ExistingEnvToken(L.m.environ) # ""
    THEN LoginAfterArg(L, ExistingEnvToken(L.m.environ), manual)
    ELSE IF FileToken(SplitLines(L.file)) # ""
    THEN LoginAfterArg(WithFileToken(L, FileToken(SplitLines(L.file))),
                       FileToken(SplitLines(L.file)), manual)
    ELSE IF Truthy(getenv(L.m.environ, "PUTER_API_KEY")) THEN LoginReturn(L)
    ELSE LoginAfterArg(L, "", manual)

\* Lines 479-489: the flag and what is left of raw.
LoginFlag(raw, flag) ==
    IF raw = flag THEN [manual |-> TRUE, raw |-> "", hit |-> TRUE]
    ELSE IF StartsWith(raw, flag \o " ")
    THEN [manual |-> TRUE, raw |-> Strip(SubSeq(raw, Len(flag) + 2, Len(raw))),
          hit |-> TRUE]
    ELSE [manual |-> FALSE, raw |-> raw, hit |-> FALSE]
LoginFlags(raw) ==
    IF LoginFlag(raw, "--manual").hit THEN LoginFlag(raw, "--manual")
    ELSE LoginFlag(raw, "--no-sdk")

\* command_puter_login after the flags are read, token being what
\* _extract_puter_token(raw) returns.
LoginBody(L, f, token) ==
    IF f.raw = "" THEN LoginNoArg(L, f.manual)
    ELSE LoginAfterArg(L, token, f.manual)

\* Lines 410-425: the loop over the lines of the helper's stdout, last line
\* first; found says that the function returns t.
RECURSIVE SdkScan(_)
SdkLine(r, rest) ==
    IF r.ok /\ IsDict(r.v) /\ Truthy(Get(r.v, "ok")) /\ Truthy(Get(r.v, "token"))
    THEN [found |-> TRUE, t |-> RemoveWs(StrOf(Get(r.v, "token")))]
    ELSE IF r.ok /\ IsDict(r.v) /\ Truthy(Get(r.v, "error"))
    THEN [found |-> FALSE, t |-> ""]
    ELSE SdkScan(rest)
SdkScan(lines) ==
    IF Len(lines) = 0 THEN [found |-> FALSE, t |-> ""]
    ELSE IF ~(StartsWith(Head(lines), "{") /\ EndsWith(Head(lines), "}"))
    THEN SdkScan(Tail(lines))
    ELSE SdkLine(JsonLoads(Head(lines)), Tail(lines))

NotBlank(ln) == ln # ""
\* Lines 407-410: candidates, reversed.
SdkCandidates(outText) ==
    SelectSeq(StripAll(Reverse(SplitLines(outText))), NotBlank)

\* node is not on the PATH: subprocess.run raises FileNotFoundError.
NodeMissing == [raise |-> TRUE, status |-> 127, stdout |-> ""]
LoginSdkOutcomes == AuthOutcomes \cup {NodeMissing}

\* `node -e ...getAuthToken()`: not started, timed out, or a return code and
\* a stdout.
RequireOutcomes ==
    { NodeMissing, Raised, Replied(0, " tokB\n"), Replied(0, ""), Replied(1, "") }

\* Lines 391-394: timeout_s kept within 8 and 30.
ClampTimeout(n) == IF n < 8 THEN 8 ELSE IF n > 30 THEN 30 ELSE n

\* timeout_s of _get_puter_token_via_node_sdk, lines 390-394
LoginTimeout(e) == ClampTimeout(IntOf(getenv_default(e, "PUTER_LOGIN_TIMEOUT", "12")))

\* The subprocess of the login flow as the log has it: it inherits
\* os.environ and runs with timeout_s.
LoginHelper(m, sub) ==
    Logged(m, [Ev("helper", 0, sub, "") EXCEPT
                  !.tokA = HelperEnv(m.environ, "puterAuthToken", ""),
                  !.tokB = HelperEnv(m.environ, "PUTER_AUTH_TOKEN", ""),
                  !.timeout = LoginTimeout(m.environ)])

\* Lines 399-432, the helper having ended as o says and r being what the
\* loop over its lines gave.
SdkAnswered(L, o, r) ==
    IF o = NodeMissing THEN LoginAfterSdk(L, "")
    ELSE IF o.raise THEN [L EXCEPT !.m.pc = "login_require"]
    ELSE IF r.found THEN LoginAfterSdk(L, r.t)
    ELSE [L EXCEPT !.m.pc = "login_require"]

\* Lines 440-467, `node -e` having ended as o says.
RequireToken(o) ==
    IF o.raise THEN ""
    ELSE IF o.status = 0 /\ Strip(o.stdout) # "" THEN RemoveWs(Strip(o.stdout))
    ELSE ""

\* What the user gives to puter-login, and pastes at its prompt.
LoginArgs ==
    { "", "--manual", " tokA ", "--no-sdk puterAuthToken = tok B",
      "http://localhost/cb?code=1&token=tok%41#x", "mytoken=1" }
Pastes ==
    { "", "http://localhost/cb?code=1#puterAuthToken=tokB", "token=",
      "http://localhost/cb?code=1&token=tok+%20B" }

\* The flags of every argument and the token of every argument and paste (a
\* table of LoginFlags and _extract_puter_token over the texts above).
FlagsOf == [rest \in LoginArgs |-> LoginFlags(Strip(rest))]
TokenOf ==
    [text \in {FlagsOf[rest].raw : rest \in LoginArgs} \cup
               {Strip(pasted) : pasted \in Pastes} |->
        _extract_puter_token(text)]

\* What the loop of lines 410-425 gives on every output of the helper (a
\* table of SdkScan over the outputs above).
SdkScanned ==
    [text \in {o.stdout : o \in LoginSdkOutcomes} |->
        SdkScan(SdkCandidates(Strip(text)))]

\* command_puter_login(rest), up to its first external call.
Login(L, rest) == LoginBody(L, FlagsOf[rest], TokenOf[FlagsOf[rest].raw])

(***************************************************************************)
(* cognitive_system.py: the actions                                        *)
(***************************************************************************)
LoginBecome(L) ==
    /\ Become(L.m)
    /\ envFile' = L.file
    /\ stores' = L.stores

\* puter-login [rest], up to its first external call
CallLogin ==
    /\ Idle
    /\ \E rest \in LoginArgs :
           LoginBecome(Login([m |-> Fresh("command_puter_login"),
                              file |-> envFile, stores |-> stores], rest))
    /\ UNCHANGED <<routeVars, parseVars, sharedVars, toolVars>>

\* subprocess.run(["node", bridge, "auth-token"]), line 400
LoginSdk ==
    /\ pc = "login_sdk"
    /\ \E o \in LoginSdkOutcomes :
           LoginBecome(SdkAnswered(
               [LoginCur EXCEPT !.m = IF o = NodeMissing THEN @
                                      ELSE LoginHelper(@, "auth-token")],
               o, SdkScanned[o.stdout]))
    /\ UNCHANGED <<routeVars, parseVars, sharedVars, toolVars>>

\* subprocess.run(["node", "-e", js]), line 441
LoginRequire ==
    /\ pc = "login_require"
    /\ \E o \in RequireOutcomes :
           LoginBecome(LoginAfterSdk(
               [LoginCur EXCEPT !.m = IF o = NodeMissing THEN @
                                      ELSE LoginHelper(@, "getAuthToken")],
               RequireToken(o)))
    /\ UNCHANGED <<routeVars, parseVars, sharedVars, toolVars>>

\* input("PUTER token/url> "), line 542
LoginInput ==
    /\ pc = "login_input"
    /\ \E pasted \in Pastes :
           LoginBecome(LoginWithToken(LoginCur, TokenOf[Strip(pasted)]))
    /\ UNCHANGED <<routeVars, parseVars, sharedVars, toolVars>>

(***************************************************************************)
(* llm_adapters.py: call_puter_with_model called from two threads (the     *)
(* handlers of qtmos_server.py run in a thread pool).  os.environ is the   *)
(* one thing they share; a thread may be switched out between any two      *)
(* accesses of it, so a step ends at every read and at every assignment.   *)
(***************************************************************************)
Threads == {1, 2}

\* The bridge call a thread made last: the token it read at line 257, the
\* two names of the environment it gave the helper, and how many
\* assignments os.environ had seen at the read and at the copy.
NoCall ==
    [seen |-> FALSE, sub |-> "", tok |-> "", envA |-> "", envB |-> "",
     readAt |-> 0, copyAt |-> 0]

\* A thread that has not called: `at` is the line of the bridge call under
\* way, tok the local `token` (or `clean`), logins the logins it has made.
CallerIdle ==
    [pc |-> "idle", entry |-> "", candidates |-> <<>>, ci |-> 0,
     payload |-> PyNone, bootFrom |-> "", result |-> <<>>,
     at |-> "", tok |-> "", old |-> "", logins |-> 0, readAt |-> 0,
     last |-> NoCall]

\* The call of thread w as the operators of the dispatcher take it; the log
\* is not kept.
CallerM(w, e) ==
    [environ |-> e, sdk |-> sdk, pc |-> callers[w].pc, entry |-> callers[w].entry,
     candidates |-> callers[w].candidates, ci |-> callers[w].ci,
     payload |-> callers[w].payload, bootFrom |-> callers[w].bootFrom,
     result |-> callers[w].result, log |-> <<>>]

\* Thread w goes on as m says.
AsCaller(c, m) ==
    [c EXCEPT !.pc = m.pc, !.entry = m.entry, !.candidates = m.candidates,
              !.ci = m.ci, !.payload = m.payload, !.bootFrom = m.bootFrom,
              !.result = m.result]

\* The caller of _run_puter_node_bridge goes on with what it returned.
SharedAfter(at, r) ==
    CASE at = "bridge1" -> AfterFirstBridge(r.m, r.ret)
      [] at = "retry349" -> AfterReauth(r.m, r.ret)
      [] at = "retry354" -> AfterRetry354(r.m, r.ret)
      [] OTHER -> BootstrapAfterHelper(r.m, r.ret)

\* The bridge call of line `at` for the model, token being what line 257
\* read.
SharedBridge(m, at, token) ==
    [Ev("bridge", m.ci, IF at = "auth_helper" THEN "auth-token" ELSE "chat",
        IF at = "auth_helper" THEN "" ELSE m.candidates[m.ci]) EXCEPT
        !.require = (at # "auth_helper"), !.tokA = token]

\* _set_puter_token, line 220 and line 221.
SetFirst(e, clean) == setenv(e, "puterAuthToken", clean)
SetSecond(e, clean) == setenv(e, "PUTER_AUTH_TOKEN", clean)

\* The helper as the threads may find it: no answer in time, a reply, a
\* reply that signals an authentication failure; the login flow gives a new
\* token or fails.
SharedChatOutcomes ==
    { Raised,
      Printed("[bridge] ready\n{\"ok\":true,\"content\":\"hi\",\"model\":\"m-sub\"}\n"),
      Printed("{\"ok\":false,\"error\":\"CHAT_FAILED\",\"detail\":\"401 Unauthorized\"}") }
SharedAuthOutcomes(w, n) ==
    { FreshLogin(FreshTokens[w][n]),
      Printed("{\"ok\":false,\"error\":\"AUTH_BOOTSTRAP_FAILED\"}") }

\* `clean` of _set_puter_token for what _bootstrap_puter_token got from the
\* helper: "" where it sets nothing.
CleanOf(p) ==
    IF IsDict(p) /\ Truthy(Get(p, "ok"))
    THEN RemoveWs(StrOf(PyOr(Get(p, "token"), PyStr(""))))
    ELSE ""

\* A thread calls call_puter_with_model(prompt)
SharedCall ==
    /\ \E w \in Threads :
           /\ callers[w].pc = "idle"
           /\ callers' = [callers EXCEPT ![w] =
                  AsCaller(@, StartDispatch(
                      [CallerM(w, environ) EXCEPT !.entry = "call_puter_with_model"],
                      PyNone))]
    /\ UNCHANGED <<llmVars, routeVars, parseVars, loginVars, toolVars, trace>>

\* The return of _run_puter_node_bridge at line 259: no token, none required.
ShortCircuit(w, c) ==
    AsCaller(c, SharedAfter(c.pc, BridgeCall(CallerM(w, environ),
                                             SharedBridge(CallerM(w, environ), c.pc, ""),
                                             Raised)))

\* Line 257 read `token`; the call goes on to its copy of os.environ.
TokenRead(c, token) ==
    [c EXCEPT !.pc = "spawn", !.at = c.pc, !.tok = token, !.readAt = Len(trace)]

\* token = _puter_token(), line 257 of _run_puter_node_bridge
SharedRead ==
    /\ \E w \in Threads :
           /\ callers[w].pc \in {"bridge1", "retry349", "retry354", "auth_helper"}
           /\ callers' = [callers EXCEPT ![w] =
                  IF @.pc # "auth_helper" /\ _puter_token(environ) = ""
                  THEN ShortCircuit(w, @)
                  ELSE TokenRead(@, _puter_token(environ))]
    /\ UNCHANGED <<llmVars, routeVars, parseVars, loginVars, toolVars, trace>>

\* The call read c.tok and copied os.environ as it is now.
CallMade(c) ==
    [seen |-> TRUE, sub |-> IF c.at = "auth_helper" THEN "auth-token" ELSE "chat",
     tok |-> c.tok,
     envA |-> HelperEnv(environ, "puterAuthToken", c.tok),
     envB |-> HelperEnv(environ, "PUTER_AUTH_TOKEN", c.tok),
     readAt |-> c.readAt, copyAt |-> Len(trace)]

\* Thread w after its bridge call returned r.ret: _set_puter_token is at
\* line 220 with a token, or the caller of the bridge goes on.
Spawned(c, r) ==
    IF c.at = "auth_helper" /\ CleanOf(r.ret) # ""
    THEN [c EXCEPT !.pc = "set1", !.tok = CleanOf(r.ret),
                   !.old = _puter_token(environ), !.logins = @ + 1,
                   !.last = CallMade(c)]
    ELSE [AsCaller(c, SharedAfter(c.at, r)) EXCEPT
             !.logins = IF c.at = "auth_helper" THEN @ + 1 ELSE @,
             !.last = CallMade(c)]

\* env = os.environ.copy() and subprocess.run, lines 262-275
SharedSpawn ==
    /\ \E w \in Threads :
           /\ callers[w].pc = "spawn"
           /\ \E o \in IF callers[w].at = "auth_helper"
                       THEN SharedAuthOutcomes(w, callers[w].logins + 1)
                       ELSE SharedChatOutcomes :
                  callers' = [callers EXCEPT ![w] =
                      Spawned(@, BridgeCall(CallerM(w, environ),
                                            SharedBridge(CallerM(w, environ), @.at, @.tok),
                                            o))]
    /\ UNCHANGED <<llmVars, routeVars, parseVars, loginVars, toolVars, trace>>

\* An assignment of _set_puter_token as the trace has it.
Assigned(w, c, name) ==
    [who |-> w, name |-> name, tok |-> c.tok, old |-> c.old,
     force |-> c.bootFrom \in {"l348", "l353"}]

\* os.environ["puterAuthToken"] = clean, line 220
SharedSet1 ==
    /\ \E w \in Threads :
           /\ callers[w].pc = "set1"
           /\ environ' = SetFirst(environ, callers[w].tok)
           /\ trace' = Append(trace, Assigned(w, callers[w], "puterAuthToken"))
           /\ callers' = [callers EXCEPT ![w].pc = "set2"]
    /\ UNCHANGED <<PUTER_KEY, PUTER_DEFAULT_MODEL, PUTER_FALLBACK_MODEL,
                   OLLAMA_MODEL, bridgeExists, sdk, geminiEnabled, pc, entry,
                   candidates, ci, payload, bootFrom, result, log>>
    /\ UNCHANGED <<routeVars, parseVars, loginVars, toolVars>>

\* os.environ["PUTER_AUTH_TOKEN"] = clean, line 221, and the return of
\* _bootstrap_puter_token to its caller
SharedSet2 ==
    /\ \E w \in Threads :
           /\ callers[w].pc = "set2"
           /\ environ' = SetSecond(environ, callers[w].tok)
           /\ trace' = Append(trace, Assigned(w, callers[w], "PUTER_AUTH_TOKEN"))
           /\ callers' = [callers EXCEPT ![w] =
                  AsCaller(@, AfterBootstrap(
                                  CallerM(w, SetSecond(environ, callers[w].tok)),
                                  PyStr(@.tok)))]
    /\ UNCHANGED <<PUTER_KEY, PUTER_DEFAULT_MODEL, PUTER_FALLBACK_MODEL,
                   OLLAMA_MODEL, bridgeExists, sdk, geminiEnabled, pc, entry,
                   candidates, ci, payload, bootFrom, result, log>>
    /\ UNCHANGED <<routeVars, parseVars, loginVars, toolVars>>

(***************************************************************************)
(* The specifications                                                      *)
(***************************************************************************)
EmptyEnv == [k \in {} |-> ""]
TokenEnvs ==
    { EmptyEnv,
      ("puterAuthToken" :> "tokA") @@ ("PUTER_AUTH_TOKEN" :> "tokA"),
      ("PUTER_AUTH_TOKEN" :> " tok A ") }
LocalOnlyEnvs == { EmptyEnv, "QTM_LOCAL_ONLY" :> "1", "QTM_LOCAL_ONLY" :> "0" }
ModelSettings ==
    { [default |-> "claude-opus-4-6", fallback |-> "claude-opus-4-6"],
      [default |-> "", fallback |-> " grok-3 "] }

CallIdle ==
    /\ pc = "idle"
    /\ entry = ""
    /\ candidates = <<>>
    /\ ci = 0
    /\ payload = PyNone
    /\ bootFrom = ""
    /\ result = <<>>
    /\ log = <<>>

RouteIdle ==
    /\ models = <<>>
    /\ mi = 1
    /\ attempts = <<>>
    /\ out = PyNone
    /\ rpc = "idle"
    /\ rresult = NoResult

ParseIdle ==
    /\ plines = <<>>
    /\ stdout = ""
    /\ parsed = PyNone
    /\ ppc = "idle"

\* No llm/.env, no puter-login run.
LoginIdle ==
    /\ envFile = ""
    /\ stores = <<>>

\* No thread has called.
SharedIdle ==
    /\ callers = <<>>
    /\ trace = <<>>

\* No function called on its own.
ToolIdle ==
    /\ fn = ""
    /\ arg = <<>>
    /\ returned = <<>>

\* The process after import: any credential, any model setting, the helper
\* and its SDK there or not; the router's settings at their defaults.
LlmInit ==
    /\ environ \in TokenEnvs
    /\ PUTER_KEY \in {"", "sk-static"}
    /\ \E ms \in ModelSettings :
           /\ PUTER_DEFAULT_MODEL = ms.default
           /\ PUTER_FALLBACK_MODEL = ms.fallback
    /\ OLLAMA_MODEL = "llama3:latest"
    /\ bridgeExists \in BOOLEAN
    /\ sdk \in {"ok", "installable", "absent"}
    /\ geminiEnabled = FALSE
    /\ CallIdle

\* The process after import: any credential, any setting of the router; the
\* helper and its SDK in place, the model settings at their defaults.
RouterLlmInit ==
    /\ \E t \in TokenEnvs, l \in LocalOnlyEnvs : environ = t @@ l
    /\ PUTER_KEY \in {"", "sk-static"}
    /\ PUTER_DEFAULT_MODEL = "claude-opus-4-6"
    /\ PUTER_FALLBACK_MODEL = "claude-opus-4-6"
    /\ OLLAMA_MODEL \in {"llama3:latest", "mistral:7b"}
    /\ bridgeExists = TRUE
    /\ sdk = "ok"
    /\ geminiEnabled \in BOOLEAN
    /\ CallIdle

\* The process with the default settings, no call made.
LlmQuiet ==
    /\ environ = EmptyEnv
    /\ PUTER_KEY = ""
    /\ PUTER_DEFAULT_MODEL = "claude-opus-4-6"
    /\ PUTER_FALLBACK_MODEL = "claude-opus-4-6"
    /\ OLLAMA_MODEL = "llama3:latest"
    /\ bridgeExists = TRUE
    /\ sdk = "ok"
    /\ geminiEnabled = FALSE
    /\ CallIdle

Init == LlmInit /\ RouteIdle /\ ParseIdle /\ LoginIdle /\ SharedIdle /\ ToolIdle

\* call_puter_with_model and _bootstrap_puter_token, called any number of
\* times
Next ==
    \/ CallDispatch
    \/ CallBootstrap
    \/ KeyedPost
    \/ BridgeFirst
    \/ BridgeRetry349
    \/ BridgeRetry354
    \/ AuthHelper

Spec == Init /\ [][Next]_vars

\* ask_router, called any number of times
RouterInit == RouterLlmInit /\ RouteIdle /\ ParseIdle /\ LoginIdle /\ SharedIdle /\ ToolIdle
RouterNext ==
    \/ CallAskRouter
    \/ KeyedPost
    \/ BridgeFirst
    \/ BridgeRetry349
    \/ BridgeRetry354
    \/ AuthHelper
    \/ Ollama
    \/ Gemini

SpecRouter == RouterInit /\ [][RouterNext]_vars

\* route_prompt.py alone
RouteInit == LlmQuiet /\ RouteIdle /\ ParseIdle /\ LoginIdle /\ SharedIdle /\ ToolIdle
RouteNext == CallRunWithFallbacks \/ RunSingle
SpecRoute == RouteInit /\ [][RouteNext]_vars

\* the bridge invoker's parsing alone
ParseInit == LlmQuiet /\ RouteIdle /\ ParseIdle /\ LoginIdle /\ SharedIdle /\ ToolIdle
ParseNext == HelperPrints \/ ParseOutput
SpecParse == ParseInit /\ [][ParseNext]_vars

\* The shell's environment and llm/.env, as an earlier run may have left
\* them when the process starts.
LoginStarts ==
    { [shell |-> EmptyEnv, file |-> ""],
      [shell |-> EmptyEnv,
       file |-> "PUTER_AUTH_TOKEN=tokA\nPUTER_TOKEN_SHA256=sha256(tokA)\nPUTER_DEFAULT_MODEL=claude-opus-4-6\n"],
      [shell |-> "puterAuthToken" :> " tok A ", file |-> ""],
      [shell |-> "PUTER_AUTH_TOKEN" :> "",
       file |-> "# puter\n PUTER_AUTH_TOKEN = 'tokA'\n\n"],
      [shell |-> "PUTER_API_KEY" :> "sk-static", file |-> ""],
      [shell |-> "PUTER_API_KEY" :> "sk-static",
       file |-> "PUTER_AUTH_TOKEN=tokA\nPUTER_TOKEN_SHA256=sha256(tokA)\nPUTER_DEFAULT_MODEL=claude-opus-4-6\n"],
      [shell |-> "PUTER_LOGIN_DISABLE_SDK" :> "1", file |-> ""] }

\* The process after import: os.environ what _load_env_fallback made of the
\* shell's environment and llm/.env, the settings read from it, no call made.
LoginInit ==
    /\ \E st \in LoginStarts :
           /\ envFile = st.file
           /\ environ = LoadLines(st.shell, SplitLines(st.file))
    /\ PUTER_KEY = getenv_default(environ, "PUTER_API_KEY", "")
    /\ PUTER_DEFAULT_MODEL = getenv_default(environ, "PUTER_DEFAULT_MODEL",
                                            "claude-opus-4-6")
    /\ PUTER_FALLBACK_MODEL = getenv_default(environ, "PUTER_FALLBACK_MODEL",
                                             "claude-opus-4-6")
    /\ OLLAMA_MODEL = getenv_default(environ, "OLLAMA_MODEL", "llama3:latest")
    /\ bridgeExists \in BOOLEAN
    /\ sdk = "ok"
    /\ geminiEnabled = FALSE
    /\ CallIdle
    /\ stores = <<>>
    /\ RouteIdle /\ ParseIdle /\ SharedIdle /\ ToolIdle

\* puter-login, call_puter_with_model and _bootstrap_puter_token, called any
\* number of times
LoginNext ==
    \/ CallLogin
    \/ LoginSdk
    \/ LoginRequire
    \/ LoginInput
    \/ CallDispatch
    \/ CallBootstrap
    \/ KeyedPost
    \/ BridgeFirst
    \/ BridgeRetry349
    \/ BridgeRetry354
    \/ AuthHelper

SpecLogin == LoginInit /\ [][LoginNext]_vars

\* Two threads of one process, each calling call_puter_with_model once: no
\* static key, the helper and its SDK in place, one candidate; a token
\* cached (under one name or both) or none.
SharedInit ==
    /\ environ \in { EmptyEnv, "PUTER_AUTH_TOKEN" :> "tokA",
                      ("puterAuthToken" :> "tokA") @@ ("PUTER_AUTH_TOKEN" :> "tokA") }
    /\ PUTER_KEY = ""
    /\ PUTER_DEFAULT_MODEL = "claude-opus-4-6"
    /\ PUTER_FALLBACK_MODEL = "claude-opus-4-6"
    /\ OLLAMA_MODEL = "llama3:latest"
    /\ bridgeExists = TRUE
    /\ sdk = "ok"
    /\ geminiEnabled = FALSE
    /\ CallIdle
    /\ RouteIdle /\ ParseIdle /\ LoginIdle /\ ToolIdle
    /\ callers = [w \in Threads |-> CallerIdle]
    /\ trace = <<>>

SharedNext ==
    \/ SharedCall
    \/ SharedRead
    \/ SharedSpawn
    \/ SharedSet1
    \/ SharedSet2

SpecShared == SharedInit /\ [][SharedNext]_vars

(***************************************************************************)
(* Properties of _run_with_fallbacks (under SpecRoute)                     *)
(***************************************************************************)
\* C1: the fallback runner tries the candidates strictly in list order and
\* stops at the first success.  The attempts trail is a prefix of the list in
\* list order, every entry but the last is a failure; on success the last
\* entry is the first success and the reply returned is that candidate's
\* reply; on failure the trail holds every candidate once, in list order, and
\* the result is a failure.
C1_FallbackOrdering ==
    /\ Len(attempts) <= Len(models)
    /\ \A i \in 1..Len(attempts) : attempts[i].model = models[i]
    /\ \A i \in 1..(Len(attempts) - 1) : ~attempts[i].ok
    /\ rpc = "loop" =>
          /\ Len(attempts) = mi - 1
          /\ \A i \in 1..Len(attempts) : ~attempts[i].ok
    /\ (rpc = "done" /\ rresult.ok) =>
          /\ Len(attempts) >= 1
          /\ attempts[Len(attempts)].ok
          /\ Truthy(Get(out, "ok"))
          /\ rresult.reply = (IF "reply" \in DOMAIN out.v THEN out.v["reply"]
                               ELSE PyStr(""))
          /\ rresult.model_used = PyOr(Get(out, "model"), PyStr(models[Len(attempts)]))
    /\ (rpc = "done" /\ ~rresult.ok) =>
          /\ Len(attempts) = Len(models)
          /\ \A i \in 1..Len(attempts) : ~attempts[i].ok
          /\ rresult.error = "all_candidates_failed"

\* C1, its case: candidates [A, B, C], A and B failed, C succeeded and C's
\* reply is returned with a trail of exactly A, B, C.
C1_Witness ==
    /\ rpc = "done"
    /\ models = <<"codestral-2508", "claude-opus-4-6", "ollama/llama3:latest">>
    /\ rresult.ok
    /\ Len(attempts) = 3
    /\ ~attempts[1].ok /\ ~attempts[2].ok /\ attempts[3].ok
    /\ rresult.reply = PyStr("local hello")

(***************************************************************************)
(* Properties of call_puter_with_model and _run_puter_bridge_with_reauth   *)
(* (under Spec), read off the log of the call in progress                  *)
(***************************************************************************)
InDispatch == entry = "call_puter_with_model"
IsChatCall(e) == e.op = "bridge" /\ e.sub = "chat"
IsForcedBootstrap(e) == e.op = "bootstrap" /\ e.force
IsSubprocess(e) == e.op \in {"probe", "npm", "helper"}
ChatCalls == {i \in DOMAIN log : IsChatCall(log[i])}
ChatCallsFor(c) == {i \in ChatCalls : log[i].ci = c}
ForcedBootstraps == {i \in DOMAIN log : IsForcedBootstrap(log[i])}
ForcedBootstrapsFor(c) == {i \in ForcedBootstraps : log[i].ci = c}
KeyedCalls == {i \in DOMAIN log : log[i].op = "keyed"}

\* One candidate, no static key, a token cached when the dispatch starts (its
\* first step is then the bridge call with that token), and every reply the
\* bridge gave is an authentication failure: not a success, and carrying an
\* error code or a detail marker of the authentication kind.
AllRepliesAuthFailures ==
    /\ InDispatch
    /\ PUTER_KEY = ""
    /\ Len(candidates) = 1
    /\ Len(log) > 0 /\ IsChatCall(log[1]) /\ log[1].tokA # ""
    /\ \E i \in ChatCalls : log[i].cls = "authfail"
    /\ \A i \in ChatCalls : log[i].cls \in {"authfail", "none"}

\* C2: in one dispatch with no static key, a cached token and one candidate,
\* if every bridge chat reply is an authentication failure then, when the
\* dispatch has ended, bootstrap(force=True) was invoked exactly once, the
\* bridge chat call was made at most twice and the dispatch has returned
\* (None, None).
C2_SingleReauthRetry ==
    (AllRepliesAuthFailures /\ pc \in {"done", "raised"}) =>
        /\ Cardinality(ForcedBootstraps) = 1
        /\ Cardinality(ChatCalls) <= 2
        /\ pc = "done"
        /\ result = <<PyNone, PyNone>>

\* C2, its case: the first reply and the retry's reply were both
\* authentication failures, and the dispatch has returned.
C2_Witness ==
    /\ AllRepliesAuthFailures
    /\ pc = "done"
    /\ Cardinality(ChatCalls) = 2
    /\ \A i \in ChatCalls : log[i].cls = "authfail"

\* C3: within one dispatch, for every candidate, the forced bootstrap is
\* invoked at most once and the bridge chat call is made at most twice; once
\* the second call for a candidate has ended in an authentication failure the
\* dispatcher makes no further call for that candidate: it is at a later
\* candidate, or the dispatch has ended, returning (None, None) if that
\* candidate was the last.
C3_BoundedReauth ==
    InDispatch =>
        \A c \in 1..Len(candidates) :
            /\ Cardinality(ForcedBootstrapsFor(c)) <= 1
            /\ Cardinality(ChatCallsFor(c)) <= 2
            /\ \A i \in ChatCallsFor(c), j \in ChatCallsFor(c) :
                   (i < j /\ log[j].cls = "authfail") =>
                       /\ ci # c
                       /\ \A k \in (j + 1)..Len(log) :
                              \/ log[k].ci > c
                              \/ log[k].ci = c /\ IsSubprocess(log[k])
                       /\ pc \in {"done", "raised"} \/ ci > c
                       /\ (c = Len(candidates)) =>
                              (pc = "done" /\ result = <<PyNone, PyNone>>)

\* C3, its case: the first candidate of two failed on authentication twice,
\* and the dispatcher is at the second candidate's bridge call.
C3_Witness ==
    /\ InDispatch
    /\ Len(candidates) = 2
    /\ Cardinality(ChatCallsFor(1)) = 2
    /\ \A i \in ChatCallsFor(1) : log[i].cls = "authfail"
    /\ Cardinality(ForcedBootstrapsFor(1)) = 1
    /\ ci = 2
    /\ pc = "bridge1"

\* C4: as soon as a keyed or bridge attempt of call_puter_with_model yields a
\* successful reply with non-empty content, the dispatch returns that reply
\* and makes no further keyed call, bridge call or bootstrap; a reply that is
\* ok with empty content is never returned as a success.
C4_ShortCircuitOnSuccess ==
    InDispatch =>
        /\ \A i \in KeyedCalls \cup ChatCalls :
               log[i].cls \in {"success", "success_auth"} =>
                   /\ \A k \in (i + 1)..Len(log) :
                          log[k].op \notin {"keyed", "bridge", "bootstrap"}
                   /\ pc = "done"
                   /\ result[1] = PyStr(log[i].content)
        /\ (pc = "done" /\ ~IsNone(result[1])) => result[1].v # ""

\* C12: call_puter_with_model raises nothing, whatever the keyed endpoint,
\* the helper and the login flow answer: the call ends by returning, and it
\* returns (content, model) with non-empty content or (None, None).
C12_ErrorsNeverEscape ==
    InDispatch =>
        /\ pc # "raised"
        /\ pc = "done" =>
              \/ result = <<PyNone, PyNone>>
              \/ /\ IsStr(result[1]) /\ result[1].v # ""
                 /\ IsStr(result[2]) /\ result[2].v # ""

\* C5 as stated: with a static key and several candidates, the keyed call and
\* then the bridge call for a candidate are made before any call for a later
\* candidate: along the log the candidates of the keyed and bridge calls
\* never go back.
C5_PerCandidateTierOrder ==
    (InDispatch /\ PUTER_KEY # "" /\ Len(candidates) > 1) =>
        \A i \in KeyedCalls \cup ChatCalls, j \in KeyedCalls \cup ChatCalls :
            i < j => log[i].ci <= log[j].ci

\* C5 as amended: with a static key, the keyed calls are made first, one for
\* each candidate in list order up to the first success; a bridge call is
\* made only after the keyed call of every candidate has failed, and the
\* bridge calls are again made candidate by candidate in list order.
C5_TierThenCandidateOrder ==
    (InDispatch /\ PUTER_KEY # "") =>
        /\ \A i \in KeyedCalls :
               /\ Cardinality({k \in KeyedCalls : k <= i}) = log[i].ci
               /\ log[i].model = candidates[log[i].ci]
               /\ \A k \in KeyedCalls : k < i => log[k].cls = "fail"
        /\ \A j \in ChatCalls :
               /\ Cardinality({k \in KeyedCalls : k < j}) = Len(candidates)
               /\ \A k \in KeyedCalls : k < j /\ log[k].cls = "fail"
               /\ log[j].model = candidates[log[j].ci]
               /\ \A i \in ChatCalls :
                      i < j => log[i].ci <= log[j].ci
               /\ \A c \in 1..(log[j].ci - 1) :
                      \E i \in ChatCallsFor(c) : i < j

\* C5, its case: two candidates, both keyed calls failed, then the bridge was
\* called for the first and for the second.
C5_Witness ==
    /\ InDispatch
    /\ PUTER_KEY # ""
    /\ Len(candidates) = 2
    /\ Cardinality(KeyedCalls) = 2
    /\ ChatCallsFor(1) # {}
    /\ ChatCallsFor(2) # {}

\* _bootstrap_puter_token(force=False) was called with no static key while a
\* token was cached.
NoOpBootstrapCase ==
    /\ entry = "_bootstrap_puter_token"
    /\ PUTER_KEY = ""
    /\ Len(log) > 0
    /\ ~log[1].force
    /\ log[1].tokA # ""

C8_NoSpawnWithoutToken ==
    \A i \in DOMAIN log :
        (log[i].op = "bridge" /\ log[i].require /\ log[i].tokA = "") =>
            /\ log[i].cls = "none"
            /\ i < Len(log) => ~IsSubprocess(log[i + 1])

\* C8, its case: the bridge was called for a chat with no token (the
\* non-forced bootstrap before it got none) while the helper and its SDK are
\* in place.
C8_Witness ==
    /\ bridgeExists
    /\ sdk = "ok"
    /\ \E i \in ChatCalls : log[i].require /\ log[i].tokA = ""

(***************************************************************************)
(* Properties of ask_router (under SpecRouter)                             *)
(***************************************************************************)
LocalOnlyEnabled ==
    "QTM_LOCAL_ONLY" \in DOMAIN environ => environ["QTM_LOCAL_ONLY"] = "1"

\* C6: with local-only mode enabled (QTM_LOCAL_ONLY is "1" or unset),
\* ask_router makes no keyed call, no bridge call, no bootstrap and no Gemini
\* call, whatever the credentials: every call it makes is the local
\* inference call, and the provider it names is "ollama" or "none".
C6_LocalOnlyIsolation ==
    (entry = "ask_router" /\ LocalOnlyEnabled) =>
        /\ \A i \in DOMAIN log : log[i].op = "ollama"
        /\ pc \in {"ollama", "done"}
        /\ pc = "done" =>
              /\ Len(log) >= 1
              /\ result[2] \in {PyStr("ollama"), PyStr("none")}

\* C6, its case: QTM_LOCAL_ONLY unset, a static key, a cached token and
\* Gemini all there, and ask_router has returned after the local call failed.
C6_Witness ==
    /\ entry = "ask_router"
    /\ "QTM_LOCAL_ONLY" \notin DOMAIN environ
    /\ PUTER_KEY # ""
    /\ _puter_token(environ) # ""
    /\ geminiEnabled
    /\ pc = "done"
    /\ result = <<PyNone, PyStr("none")>>

RouterReturned == entry = "ask_router" /\ pc = "done"
\* The backend calls of the ask_router in progress, by backend.
PuterCalls == {i \in DOMAIN log : log[i].op \in {"keyed", "bridge"}}
OllamaCalls == {i \in DOMAIN log : log[i].op = "ollama"}
GeminiCalls == {i \in DOMAIN log : log[i].op = "gemini"}
\* The reply ask_router returned is that of call i, a success.
ReturnedFrom(i) ==
    /\ log[i].cls \in {"success", "success_auth"}
    /\ StrOf(result[1]) = log[i].content

\* C11 as stated: when every backend ask_router tried has failed, it returns
\* the pair (None, None).
C11_ExhaustionNoneNone ==
    (RouterReturned /\ IsNone(result[1])) => IsNone(result[2])

\* C11 as amended: when every backend ask_router tried has failed, it returns
\* the pair (None, "none"); in every other case it returns (reply, name) where
\* reply is non-empty and name is "puter", "ollama" or "gemini", the backend
\* whose call produced that reply, the last backend tried.
C11_ExhaustionNoneLabel ==
    RouterReturned =>
        /\ Len(result) = 2
        /\ result[2] \in {PyStr("none"), PyStr("puter"), PyStr("ollama"),
                          PyStr("gemini")}
        /\ result[2] = PyStr("none") <=> ~Truthy(result[1])
        /\ ~Truthy(result[1]) =>
               /\ IsNone(result[1])
               /\ OllamaCalls # {}
               /\ \A i \in OllamaCalls \cup GeminiCalls : log[i].cls = "fail"
               /\ \A i \in PuterCalls : i < Len(log)
               /\ log[Len(log)].cls = "fail"
        /\ result[2] = PyStr("puter") =>
               /\ OllamaCalls \cup GeminiCalls = {}
               /\ \E i \in PuterCalls : ReturnedFrom(i)
        /\ result[2] = PyStr("ollama") =>
               /\ GeminiCalls = {}
               /\ log[Len(log)].op = "ollama" /\ ReturnedFrom(Len(log))
        /\ result[2] = PyStr("gemini") =>
               /\ log[Len(log)].op = "gemini" /\ ReturnedFrom(Len(log))

\* C11, its case: local-only mode off, the remote provider, the local server
\* and Gemini were all tried and all failed, and ask_router has returned
\* (None, "none").
C11_Witness ==
    /\ RouterReturned
    /\ PuterCalls # {} /\ OllamaCalls # {} /\ GeminiCalls # {}
    /\ result = <<PyNone, PyStr("none")>>

(***************************************************************************)
(* Properties of the parsing of _run_puter_node_bridge (under SpecParse)   *)
(***************************************************************************)
\* s is a well-formed JSON object.
IsJsonObject(s) == StartsWith(s, "{") /\ EndsWith(s, "}") /\ JsonLoads(s).ok
ObjectLines == {i \in DOMAIN plines : IsJsonObject(Strip(plines[i]))}
LastObjectLine == CHOOSE i \in ObjectLines : \A k \in ObjectLines : k <= i

\* C9: when the output is any number of lines that are not JSON followed by a
\* final line that is a well-formed JSON object, the value returned is the
\* parsed form of that final object; when neither the full trimmed output nor
\* any line parses as a JSON object, the value returned is None.
C9_NoisyOutputParsing ==
    ppc = "done" =>
        /\ (/\ Len(plines) >= 1
            /\ ObjectLines = {Len(plines)}) =>
               parsed = JsonLoads(Strip(plines[Len(plines)])).v
        /\ (ObjectLines = {} /\ ~IsJsonObject(Strip(stdout))) => parsed = PyNone

\* C9, its case: two log lines, then the result line.
C9_Witness ==
    /\ ppc = "done"
    /\ plines = <<"log line", "{not json}", "{\"ok\": true, \"content\": \"hi\"}">>
    /\ parsed = PyDict(("ok" :> PyBool(TRUE)) @@ ("content" :> PyStr("hi")))

NonEmptyLines == {i \in DOMAIN plines : Strip(plines[i]) # ""}

\* C10 as stated: for every output whose final non-empty line is not a
\* well-formed JSON object, and whose full text is not one, the value
\* returned is None.
C10_OnlyFinalLineTrusted ==
    (/\ ppc = "done"
     /\ ~IsJsonObject(Strip(stdout))
     /\ \A i \in NonEmptyLines :
            (\A k \in NonEmptyLines : k <= i) => i \notin ObjectLines) =>
        parsed = PyNone

\* C10 as amended: for every output whose full text is not a well-formed
\* JSON object, the value returned is the parsed form of the last line that
\* is a well-formed JSON object, whatever follows that line, and None only
\* when no line is one.
C10_LastObjectLineTrusted ==
    (ppc = "done" /\ ~IsJsonObject(Strip(stdout))) =>
        parsed = IF ObjectLines = {} THEN PyNone
                 ELSE JsonLoads(Strip(plines[LastObjectLine])).v

\* C10, its case: two result lines followed by log noise; the second is
\* returned.
C10_Witness ==
    /\ ppc = "done"
    /\ plines = <<"{\"ok\": true, \"content\": \"hi\"}",
                  "  {\"ok\":false,\"error\":\"X\",\"n\":[1,null]}  ",
                  "log line">>
    /\ parsed = JsonLoads("{\"ok\":false,\"error\":\"X\",\"n\":[1,null]}").v

(***************************************************************************)
(* Properties of the credential across puter-login, bootstrap and dispatch *)
(* (under SpecLogin)                                                       *)
(***************************************************************************)
\* llm/.env as _load_env_fallback reads it: the value of every key.
FileEnv(text) == LoadLines(EmptyEnv, SplitLines(text))

\* C13. Fingerprint invariant: whenever PUTER_TOKEN_SHA256 is stored, in
\* os.environ or in llm/.env, it is the SHA-256 of the active token (what
\* _puter_token() returns), after any sequence of puter-login, bootstrap and
\* dispatch; it is never left over from an earlier token.
C13_FingerprintMatchesToken ==
    /\ "PUTER_TOKEN_SHA256" \in DOMAIN environ
           => environ["PUTER_TOKEN_SHA256"] = _token_sha256(_puter_token(environ))
    /\ "PUTER_TOKEN_SHA256" \in DOMAIN FileEnv(envFile)
           => FileEnv(envFile)["PUTER_TOKEN_SHA256"]
                  = _token_sha256(_puter_token(environ))

\* The token a later start of the process reads from llm/.env.
DurableToken == _puter_token(FileEnv(envFile))

\* The entry at i is the last change of the token the log has.
LastTokenChange(i) ==
    /\ log[i].op \in {"set_token", "store"}
    /\ \A j \in (i + 1)..Len(log) : log[j].op \notin {"set_token", "store"}

\* C14. A successful bootstrap persists the credential: after a bootstrap in
\* which the login flow replied ok with a token, that token (white space
\* removed) is the active token and llm/.env holds the same token, so that
\* the active and the durable token agree.
C14_BootstrapPersistsToken ==
    \A i \in DOMAIN log :
        log[i].op = "set_token" /\ LastTokenChange(i)
            => /\ _puter_token(environ) = log[i].tokA
               /\ DurableToken = log[i].tokA

\* C15. Idempotent token set: two stores of the same token by puter-login,
\* one after the other, leave llm/.env after the second byte for byte what
\* it was after the first, and give the same fingerprint.
C15_SameTokenSameFile ==
    Len(stores) = 2 /\ stores[1].token = stores[2].token
        => /\ stores[1].file = stores[2].file
           /\ stores[1].hash = stores[2].hash

\* puter-login has stored the same token twice and returned; llm/.env holds
\* the token, its fingerprint and the pinned model.
C15_Witness ==
    /\ Len(stores) = 2
    /\ stores[1].token = stores[2].token
    /\ pc = "done"
    /\ entry = "command_puter_login"
    /\ envFile = stores[1].file
    /\ DurableToken = stores[1].token
    /\ FileEnv(envFile)["PUTER_TOKEN_SHA256"] = stores[1].hash

\* C17. Static key bypass: where a static API key is configured
\* (PUTER_API_KEY), the auth-token helper subprocess is never started,
\* whatever the entry point: bootstrap, forced or not, a dispatch that sees
\* authentication failures, or puter-login with or without an argument.
C17_StaticKeyBypass ==
    PUTER_KEY # ""
        => \A i \in DOMAIN log : ~(log[i].op = "helper" /\ log[i].sub = "auth-token")

(***************************************************************************)
(* Properties of the credential across bootstrap and dispatch (under Spec) *)
(***************************************************************************)
\* The call in progress has set a token.
TokenWasSet == \E i \in DOMAIN log : log[i].op = "set_token"

\* A call of _bootstrap_puter_token has ended and got no token: it neither
\* set one nor returned the cached one.
BootstrapFailed ==
    /\ entry = "_bootstrap_puter_token"
    /\ pc \in {"done", "raised"}
    /\ ~TokenWasSet
    /\ ~(pc = "done" /\ Truthy(result[1]))

\* C16. Credentials are never deleted and a failed bootstrap changes
\* nothing: a bootstrap that fails returns None without raising and leaves
\* the active token as it was at the call; and a call that has seen a token
\* active never leaves the active token empty.
C16_FailedBootstrapChangesNothing ==
    /\ BootstrapFailed
           => /\ pc = "done"
              /\ result = <<PyNone>>
              /\ _puter_token(environ) = log[1].tokA
    /\ (\E i \in DOMAIN log : log[i].tokA # "" /\ log[i].op \in {"bootstrap", "bridge"})
           => _puter_token(environ) # ""

\* The entry at i is a chat call of the bridge, made with a token, that
\* failed otherwise than on authentication: no reply (a timeout, an output
\* that is no JSON), or a reply that is no success and has no signature of
\* an authentication failure.
NonAuthFailure(i) ==
    /\ log[i].op = "bridge"
    /\ log[i].sub = "chat"
    /\ log[i].tokA # ""
    /\ log[i].cls \in {"none", "fail"}

\* C18. Non-auth failures do not touch credentials: after a bridge attempt
\* that fails otherwise than on authentication the dispatcher calls no
\* bootstrap and no bridge again for that candidate (of that candidate the
\* log holds, after the attempt, only the subprocesses of the attempt), the
\* active token is the one the attempt was made with until another
\* candidate is tried, and the dispatcher has moved to the next candidate or
\* ended.
C18_NonAuthFailureKeepsToken ==
    \A i \in DOMAIN log :
        NonAuthFailure(i)
            => /\ \A j \in (i + 1)..Len(log) :
                      log[j].ci = log[i].ci => log[j].op \in {"probe", "npm", "helper"}
               /\ (\A j \in (i + 1)..Len(log) : log[j].ci = log[i].ci)
                      => _puter_token(environ) = log[i].tokA
               /\ pc \in {"done", "raised"} \/ ci > log[i].ci

\* The first candidate timed out and the second returned an empty content,
\* both with the token the process started with; no bootstrap was called.
C18_Witness ==
    /\ pc = "done"
    /\ result = <<PyNone, PyNone>>
    /\ \E i \in DOMAIN log : NonAuthFailure(i) /\ log[i].ci = 1 /\ log[i].cls = "none"
    /\ \E i \in DOMAIN log : NonAuthFailure(i) /\ log[i].ci = 2 /\ log[i].cls = "fail"
    /\ \E i \in DOMAIN log : log[i].op = "helper" /\ log[i].ci = 1
    /\ \A i \in DOMAIN log : log[i].op # "bootstrap"
    /\ _puter_token(environ) = "tokA"

\* The entries of the log for candidate c that are calls of
\* _bootstrap_puter_token with this force, and the runs of the login flow.
BootstrapsAt(c, force) ==
    {i \in DOMAIN log : log[i].op = "bootstrap" /\ log[i].ci = c /\ log[i].force = force}
LoginRunsAt(c) ==
    {i \in DOMAIN log : log[i].op = "helper" /\ log[i].sub = "auth-token" /\ log[i].ci = c}

\* C19. Missing-token path: for a candidate whose bridge attempt finds no
\* token cached (the dispatcher then calls bootstrap with force false),
\* bootstrap with force false is called exactly once, the login flow is
\* started at most once, the bridge call follows (or is the next step), and
\* bootstrap with force true is called only after a reply of the bridge
\* that signals an authentication failure.
C19_MissingTokenPath ==
    \A i \in DOMAIN log :
        log[i].op = "bootstrap" /\ ~log[i].force /\ log[i].ci > 0
            => /\ Cardinality(BootstrapsAt(log[i].ci, FALSE)) = 1
               /\ Cardinality(LoginRunsAt(log[i].ci)) <= 1
               /\ \/ pc \in {"auth_helper", "bridge1"} /\ ci = log[i].ci
                  \/ \E j \in (i + 1)..Len(log) :
                         log[j].op = "bridge" /\ log[j].sub = "chat"
                             /\ log[j].ci = log[i].ci
               /\ \A j \in BootstrapsAt(log[i].ci, TRUE) :
                      \E k \in 1..(j - 1) :
                          /\ log[k].op = "bridge"
                          /\ log[k].ci = log[i].ci
                          /\ log[k].cls \in {"authfail", "success_auth"}

(***************************************************************************)
(* Properties of the token shared by two threads (under SpecShared)        *)
(***************************************************************************)
\* The forced bootstraps that had completed (second assignment made) when
\* os.environ had seen n assignments, and the last of them.
ForcedDone(n) ==
    {k \in 1..n : trace[k].name = "PUTER_AUTH_TOKEN" /\ trace[k].force}
LastForced(n) == CHOOSE k \in ForcedDone(n) : \A j \in ForcedDone(n) : j <= k

\* The tokens assigned from the k-th assignment to the n-th: the token of
\* the bootstrap that completed at k and those set since.
Written(k, n) == {trace[j].tok : j \in k..n}

\* The tokens of the calls of _set_puter_token that were between their two
\* assignments when os.environ had seen n assignments.
BeingSet(n) ==
    {trace[j].tok : j \in {i \in 1..n :
        /\ trace[i].name = "puterAuthToken"
        /\ \A h \in (i + 1)..n :
               ~(trace[h].who = trace[i].who /\ trace[h].name = "PUTER_AUTH_TOKEN")}}

\* The call c, started after the forced bootstrap that completed at k, read
\* and gave the helper that bootstrap's token, or one set since, or one
\* that was being set.
SeesNewToken(c, k) ==
    /\ c.tok \in Written(k, c.readAt) \cup BeingSet(c.readAt)
    /\ c.envA \in Written(k, c.copyAt) \cup BeingSet(c.copyAt)
    /\ c.envB \in Written(k, c.copyAt) \cup BeingSet(c.copyAt)

\* C20. Shared credential under concurrency: with two threads in
\* call_puter_with_model, a bridge call of either thread that starts after a
\* forced bootstrap of one of them has completed reads, and gives the
\* helper under both names, the token of that bootstrap (or one set after
\* it, or one that another bootstrap is setting), never a token whose
\* assignments were over before the bootstrap completed.
C20_SharedTokenAfterForcedBootstrap ==
    \A w \in DOMAIN callers :
        callers[w].last.seen /\ ForcedDone(callers[w].last.readAt) # {}
            => SeesNewToken(callers[w].last, LastForced(callers[w].last.readAt))

(***************************************************************************)
(* call_puter_with_model on any `model` and any model settings             *)
(***************************************************************************)
\* The `model` argument: none, empty, blank, padded, the default, another.
ExplicitModels ==
    { PyNone, PyStr(""), PyStr("  "), PyStr(" gpt-4.1-mini "),
      PyStr("claude-opus-4-6"), PyStr("grok-3") }
DefaultModels == { "claude-opus-4-6", "", " gpt-4o " }
FallbackModels == { "claude-opus-4-6", "", " grok-3 ", "  " }

\* call_puter_with_model(prompt, model), the argument kept
CallWithModel ==
    /\ Idle
    /\ \E model \in ExplicitModels :
           /\ Become(StartDispatch(Fresh("call_puter_with_model"), model))
           /\ fn' = "call_puter_with_model"
           /\ arg' = <<model>>
    /\ UNCHANGED <<returned, routeVars, parseVars, loginVars, sharedVars>>

\* The process after import with any model settings, a token cached or not,
\* the helper and its SDK in place.
CandidatesInit ==
    /\ environ \in { EmptyEnv,
                      ("puterAuthToken" :> "tokA") @@ ("PUTER_AUTH_TOKEN" :> "tokA") }
    /\ PUTER_KEY \in {"", "sk-static"}
    /\ PUTER_DEFAULT_MODEL \in DefaultModels
    /\ PUTER_FALLBACK_MODEL \in FallbackModels
    /\ OLLAMA_MODEL = "llama3:latest"
    /\ bridgeExists = TRUE
    /\ sdk = "ok"
    /\ geminiEnabled = FALSE
    /\ CallIdle
    /\ RouteIdle /\ ParseIdle /\ LoginIdle /\ SharedIdle /\ ToolIdle
CandidatesNext ==
    \/ CallWithModel
    \/ KeyedPost
    \/ BridgeFirst
    \/ BridgeRetry349
    \/ BridgeRetry354
    \/ AuthHelper
SpecCandidates == CandidatesInit /\ [][CandidatesNext]_vars

(***************************************************************************)
(* Properties of the candidate list (under SpecCandidates)                 *)
(***************************************************************************)
\* `model` is a str that `model or PUTER_DEFAULT_MODEL` keeps.
ModelGiven == fn = "call_puter_with_model" /\ IsStr(arg[1]) /\ arg[1].v # ""
NoDuplicates(q) == \A i, j \in 1..Len(q) : q[i] = q[j] => i = j

\* C21: the list resolved by call_puter_with_model is never empty, has at
\* most two elements and no duplicates; its first element is the explicit
\* model, trimmed, where one is given (a blank one may also count as not
\* given), and the configured default, trimmed, where none is given and a
\* default is configured; a second element is the configured fallback,
\* trimmed, and is there exactly where the fallback is not blank and differs
\* from the first element.
C21_ExplicitModelFirst ==
    fn = "call_puter_with_model" =>
        /\ Len(candidates) \in 1..2
        /\ NoDuplicates(candidates)
        /\ ModelGiven /\ Strip(arg[1].v) # "" =>
               candidates[1] = Strip(arg[1].v)
        /\ ModelGiven /\ Strip(arg[1].v) = "" /\ Strip(PUTER_DEFAULT_MODEL) # "" =>
               candidates[1] = Strip(PUTER_DEFAULT_MODEL)
        /\ ~ModelGiven /\ Strip(PUTER_DEFAULT_MODEL) # "" =>
               candidates[1] = Strip(PUTER_DEFAULT_MODEL)
        /\ Len(candidates) = 2 => candidates[2] = Strip(PUTER_FALLBACK_MODEL)
        /\ Strip(PUTER_FALLBACK_MODEL) \notin {"", candidates[1]} =>
               Len(candidates) = 2

(***************************************************************************)
(* route_prompt.py: the task class and the automatic candidates            *)
(***************************************************************************)
DEFAULT_FAST == "gpt-4.1-mini"
DEFAULT_REASONING == "claude-opus-4-6"
DEFAULT_CODING == "codestral-2508"
DEFAULT_DOCS == "gemini-2.5-pro"
DEFAULT_LOCAL == "ollama/llama3:latest"

\* The characters \w matches (the ASCII part).
WordChars ==
    {Ch(LowerLetters, i) : i \in 1..Len(LowerLetters)}
        \cup {Ch(UpperLetters, i) : i \in 1..Len(UpperLetters)}
        \cup {Ch(Digits, i) : i \in 1..Len(Digits)} \cup {"_"}
\* \bw\b matches at i, for a word w of word characters.
WordAt(t, i, w) ==
    /\ Lit(t, i, w)
    /\ At(t, i - 1) \notin WordChars
    /\ At(t, i + Len(w)) \notin WordChars
\* re.search(r"\b(w1|w2|...)\b", t)
Search(words, t) == \E w \in words : \E i \in 1..Len(t) : WordAt(t, i, w)

CodingWords ==
    { "code", "python", "javascript", "bug", "stacktrace", "function",
      "refactor", "compile", "script", "regex", "api" }
DocsWords == { "image", "pdf", "scan", "diagram", "screenshot", "document", "doc" }
ReasoningWords ==
    { "reason", "analyse", "analyze", "proof", "math", "logic", "plan",
      "strategy", "difficult", "deep" }

\* A mutation: the documents class is tested before the coding class.
InferLowered_DocsFirst(t) ==
    IF Search(DocsWords, t) THEN "docs"
    ELSE IF Search(CodingWords, t) THEN "coding"
    ELSE IF Search(ReasoningWords, t) THEN "reasoning"
    ELSE "fast"

\* _infer_task_class from its second line, t being task.lower()
InferLowered(t) ==
    IF Search(CodingWords, t) THEN "coding"
    ELSE IF Search(DocsWords, t) THEN "docs"
    ELSE IF Search(ReasoningWords, t) THEN "reasoning"
    ELSE "fast"

_infer_task_class(task) ==
    CHOOSE cls \in {InferLowered(t) : t \in {Lower(task)}} : TRUE

CandidatesOf(cls) ==
    IF cls = "coding"
    THEN <<DEFAULT_CODING, DEFAULT_REASONING, DEFAULT_FAST, DEFAULT_LOCAL>>
    ELSE IF cls = "docs"
    THEN <<DEFAULT_DOCS, DEFAULT_REASONING, DEFAULT_FAST, DEFAULT_LOCAL>>
    ELSE IF cls = "reasoning"
    THEN <<DEFAULT_REASONING, DEFAULT_FAST, DEFAULT_LOCAL>>
    ELSE <<DEFAULT_FAST, DEFAULT_REASONING, DEFAULT_LOCAL>>

_auto_candidates(task) == CandidatesOf(_infer_task_class(task))

\* The task texts: up to MaxWords words, joined by one space.
MaxWords == 3
TaskWords ==
    { "code", "PDF", "Analyze", "decode", "api_key", "doc." }
Tasks == { Join(q, " ") : q \in UNION {[1..n -> TaskWords] : n \in 0..MaxWords} }

\* _infer_task_class(args.task), in a run of the script on the task text
CallInferTaskClass ==
    /\ fn = ""
    /\ fn' = "_infer_task_class"
    /\ returned' = <<_infer_task_class(arg[1])>>
    /\ UNCHANGED <<arg, llmVars, routeVars, parseVars, loginVars, sharedVars>>

\* _auto_candidates(args.task), line 123
CallAutoCandidates ==
    /\ fn = ""
    /\ fn' = "_auto_candidates"
    /\ returned' = <<_auto_candidates(arg[1])>>
    /\ UNCHANGED <<arg, llmVars, routeVars, parseVars, loginVars, sharedVars>>

\* The script started on a task text, nothing called yet.
ClassifyInit ==
    /\ LlmQuiet /\ RouteIdle /\ ParseIdle /\ LoginIdle /\ SharedIdle
    /\ fn = ""
    /\ arg \in {<<task>> : task \in Tasks}
    /\ returned = <<>>
ClassifyNext == CallInferTaskClass \/ CallAutoCandidates
SpecClassify == ClassifyInit /\ [][ClassifyNext]_vars

(***************************************************************************)
(* Properties of the task class (under SpecClassify)                       *)
(***************************************************************************)
\* The classes that have keywords, in the order of their priority, the
\* keywords of each and the default model of each.
ClassOrder == <<"coding", "docs", "reasoning">>
KeywordsOf == <<CodingWords, DocsWords, ReasoningWords>>
ClassDefault ==
    [cls \in {"coding", "docs", "reasoning", "fast"} |->
        IF cls = "coding" THEN DEFAULT_CODING
        ELSE IF cls = "docs" THEN DEFAULT_DOCS
        ELSE IF cls = "reasoning" THEN DEFAULT_REASONING
        ELSE DEFAULT_FAST]
\* The classes a keyword of which stands in the task as a word, any case.
MatchingIn(t) ==
    { k \in 1..3 : \E w \in KeywordsOf[k] : \E i \in 1..Len(t) : WordAt(t, i, w) }
MatchingClasses(task) == CHOOSE m \in {MatchingIn(t) : t \in {Lower(task)}} : TRUE
FirstClass(m) ==
    IF m = {} THEN "fast" ELSE ClassOrder[CHOOSE k \in m : \A j \in m : k <= j]
ExpectedClass(task) ==
    CHOOSE cls \in {FirstClass(m) : m \in {MatchingClasses(task)}} : TRUE

\* C22: _infer_task_class returns the first class, in the order coding,
\* documents, reasoning, of which a keyword stands in the task, and fast
\* where none does; _auto_candidates returns a list without duplicates that
\* starts with the default model of that class, ends with the local model and
\* holds only the default models of the classes in between.
C22_ClassificationAndCandidates ==
    /\ fn = "_infer_task_class" => returned[1] = ExpectedClass(arg[1])
    /\ fn = "_auto_candidates" =>
           /\ Len(returned[1]) >= 2
           /\ returned[1][1] = ClassDefault[ExpectedClass(arg[1])]
           /\ returned[1][Len(returned[1])] = DEFAULT_LOCAL
           /\ NoDuplicates(returned[1])
           /\ \A i \in 2..(Len(returned[1]) - 1) :
                  returned[1][i] \in {ClassDefault[c] : c \in DOMAIN ClassDefault}

\* A task holding a keyword of each class, the one of the documents class
\* first and the one of the coding class last, has been classified as coding.
C22_Witness ==
    /\ fn = "_infer_task_class"
    /\ MatchingClasses(arg[1]) = {1, 2, 3}
    /\ arg[1] = "PDF Analyze code"
    /\ returned[1] = "coding"

(***************************************************************************)
(* query_ollama on any model                                               *)
(***************************************************************************)
\* The `model` argument of query_ollama.
OllamaModelArgs ==
    { PyNone, PyStr(""), PyStr("llama3:latest"), PyStr("mistral:7b"),
      PyStr("phi3") }

\* The server on a post: what ask_router may meet, a body that is no JSON, one
\* that is no object, an object without "response".
QueryOutcomes ==
    OllamaOutcomes \cup { Replied(200, "oops"), Replied(200, "[1]"),
                          Replied(200, "{\"done\":true}") }

\* The replies that the posts logged in m got, of o1 and o2.
RepliesUsed(m, o1, o2) == IF Len(m.log) = 2 THEN <<o1, o2>> ELSE <<o1>>

\* query_ollama(prompt, model), kept with its argument and the replies to
\* its posts
CallQueryOllama ==
    /\ Idle
    /\ \E model \in OllamaModelArgs, o1 \in QueryOutcomes, o2 \in QueryOutcomes :
           \E r \in {query_ollama(Fresh("query_ollama"), model, o1, o2)} :
               /\ Become(Finish(r.m, <<r.ret>>))
               /\ fn' = "query_ollama"
               /\ arg' = <<model, RepliesUsed(r.m, o1, o2)>>
    /\ UNCHANGED <<returned, routeVars, parseVars, loginVars, sharedVars>>

\* The process after import, OLLAMA_MODEL at its default or set.
OllamaInit ==
    /\ environ = EmptyEnv
    /\ PUTER_KEY = ""
    /\ PUTER_DEFAULT_MODEL = "claude-opus-4-6"
    /\ PUTER_FALLBACK_MODEL = "claude-opus-4-6"
    /\ OLLAMA_MODEL \in {"llama3:latest", "mistral:7b"}
    /\ bridgeExists = TRUE
    /\ sdk = "ok"
    /\ geminiEnabled = FALSE
    /\ CallIdle
    /\ RouteIdle /\ ParseIdle /\ LoginIdle /\ SharedIdle /\ ToolIdle
OllamaNext == CallQueryOllama
SpecOllama == OllamaInit /\ [][OllamaNext]_vars

(***************************************************************************)
(* Properties of query_ollama (under SpecOllama)                           *)
(***************************************************************************)
OllamaPosts == SelectSeq(log, LAMBDA e : e.op = "ollama")
\* The model asked for: `model or OLLAMA_MODEL`.
RequestedModel == IF Truthy(arg[1]) THEN arg[1].v ELSE OLLAMA_MODEL
\* A reply that is no HTTP success with a JSON object.
FailedReply(o) ==
    o.raise \/ o.status >= 400 \/ ~JsonLoads(o.stdout).ok
            \/ ~IsDict(JsonLoads(o.stdout).v)

\* C23: a call of query_ollama makes one or two posts, the first for the
\* model asked for; it makes the second exactly where the first was answered
\* by HTTP 404 and the model asked for is not llama3:latest, the second is
\* for llama3:latest and its reply is final; the call raises nothing, and
\* returns None where its last post failed.
C23_OllamaRetryPolicy ==
    fn = "query_ollama" =>
        /\ pc = "done"
        /\ Len(OllamaPosts) \in 1..2
        /\ Len(log) = Len(OllamaPosts)
        /\ Len(arg[2]) = Len(OllamaPosts)
        /\ OllamaPosts[1].model = RequestedModel
        /\ Len(OllamaPosts) = 2 <=>
               /\ ~arg[2][1].raise
               /\ arg[2][1].status = 404
               /\ RequestedModel # "llama3:latest"
        /\ Len(OllamaPosts) = 2 => OllamaPosts[2].model = "llama3:latest"
        /\ FailedReply(arg[2][Len(arg[2])]) => result = <<PyNone>>

\* The second post was answered by HTTP 404 as the first was: no third post,
\* None returned.
C23_Witness ==
    /\ fn = "query_ollama"
    /\ Len(OllamaPosts) = 2
    /\ ~arg[2][2].raise /\ arg[2][2].status = 404
    /\ result = <<PyNone>>

(***************************************************************************)
(* The login flow under any timeout setting                                *)
(***************************************************************************)
\* PUTER_LOGIN_TIMEOUT and PUTER_TIMEOUT as the shell sets them: unset, below
\* the limits, at them, above them.
TimeoutEnvs ==
    { EmptyEnv,
      ("PUTER_LOGIN_TIMEOUT" :> "7") @@ ("PUTER_TIMEOUT" :> "5"),
      ("PUTER_LOGIN_TIMEOUT" :> "-5") @@ ("PUTER_TIMEOUT" :> "-20"),
      ("PUTER_LOGIN_TIMEOUT" :> "30") @@ ("PUTER_TIMEOUT" :> "20"),
      ("PUTER_LOGIN_TIMEOUT" :> "31") @@ ("PUTER_TIMEOUT" :> "21"),
      ("PUTER_LOGIN_TIMEOUT" :> " 600 ") @@ ("PUTER_TIMEOUT" :> "4") }

\* The process after import: no credential, no llm/.env, the helper file
\* there or not.
TimeoutInit ==
    /\ environ \in TimeoutEnvs
    /\ PUTER_KEY = ""
    /\ PUTER_DEFAULT_MODEL = "claude-opus-4-6"
    /\ PUTER_FALLBACK_MODEL = "claude-opus-4-6"
    /\ OLLAMA_MODEL = "llama3:latest"
    /\ bridgeExists \in BOOLEAN
    /\ sdk = "ok"
    /\ geminiEnabled = FALSE
    /\ CallIdle
    /\ RouteIdle /\ ParseIdle /\ LoginIdle /\ SharedIdle /\ ToolIdle

\* puter-login, call_puter_with_model and _bootstrap_puter_token, called any
\* number of times; without a static key no keyed post is made.
TimeoutNext ==
    \/ CallLogin
    \/ LoginSdk
    \/ LoginRequire
    \/ LoginInput
    \/ CallDispatch
    \/ CallBootstrap
    \/ BridgeFirst
    \/ BridgeRetry349
    \/ BridgeRetry354
    \/ AuthHelper

SpecTimeout == TimeoutInit /\ [][TimeoutNext]_vars

(***************************************************************************)
(* Properties of the login flow's timeout (under SpecTimeout)              *)
(***************************************************************************)
\* A subprocess of the login flow: the helper on auth-token, or node on
\* getAuthToken().
IsLoginRun(e) == e.op = "helper" /\ e.sub \in {"auth-token", "getAuthToken"}

\* C24: every subprocess of the login flow, started by bootstrap or by
\* puter-login, runs with a timeout of at least 8 and at most 30 seconds.
C24_LoginTimeoutClamped ==
    \A i \in 1..Len(log) :
        IsLoginRun(log[i]) => log[i].timeout >= 8 /\ log[i].timeout <= 30

(***************************************************************************)
(* _upsert_env_var on any file                                             *)
(***************************************************************************)
\* The lines a file may hold: other keys, the key plain, indented and
\* quoted, the key with a space before the sign, an empty line, a line that
\* ends in spaces, a comment with a byte that is no UTF-8.
EnvFileLines ==
    { "A=1", "KEY=old", "  KEY='x'", "KEY = old", "", "B=2  ", "# caf\\xe9" }
EnvFiles ==
    { Join(q, "\n") \o end :
          q \in UNION {[1..n -> EnvFileLines] : n \in 0..MaxLines},
          end \in {"", "\n"} }

\* _upsert_env_var(path, "KEY", value) on the file
CallUpsert ==
    /\ fn = ""
    /\ fn' = "_upsert_env_var"
    /\ returned' = <<_upsert_env_var(arg[1], arg[2], arg[3])>>
    /\ UNCHANGED <<arg, llmVars, routeVars, parseVars, loginVars, sharedVars>>

\* A file, a key and a value, nothing called yet.
UpsertInit ==
    /\ LlmQuiet /\ RouteIdle /\ ParseIdle /\ LoginIdle /\ SharedIdle
    /\ fn = ""
    /\ arg \in {<<text, "KEY", value>> : text \in EnvFiles, value \in {"new", ""}}
    /\ returned = <<>>
UpsertNext == CallUpsert
SpecUpsert == UpsertInit /\ [][UpsertNext]_vars

(***************************************************************************)
(* Properties of _upsert_env_var (under SpecUpsert)                        *)
(***************************************************************************)
\* A line of the key, as the function tells it: key= after leading white
\* space.
KeyLine(line, key) == StartsWith(Strip(line), key \o "=")
OtherLines(q, key) == SelectSeq(q, LAMBDA line : ~KeyLine(line, key))
\* The claim on the lines before and after, pair being key=value.
UpsertFrame(old, new, key, pair) ==
    /\ OtherLines(new, key) = OtherLines(old, key)
    /\ (\E i \in DOMAIN old : KeyLine(old[i], key)) =>
           /\ Len(new) = Len(old)
           /\ \A i \in DOMAIN old : KeyLine(old[i], key) => new[i] = pair
    /\ ~(\E i \in DOMAIN old : KeyLine(old[i], key)) => new = Append(old, pair)
    /\ \A i \in DOMAIN new : KeyLine(new[i], key) => new[i] = pair

\* C25: after _upsert_env_var(key, value) the lines of the file that are not
\* of the key are the same as before, in the same order; where the file had
\* lines of the key each is now key=value and no line was added, otherwise
\* key=value was added as the last line; no line of the key has another
\* value.
C25_UpsertFrame ==
    fn = "_upsert_env_var" =>
        \E old \in {SplitLines(arg[1])}, new \in {SplitLines(returned[1])} :
            UpsertFrame(old, new, arg[2], arg[2] \o "=" \o arg[3])

(***************************************************************************)
(* Properties of the tokens installed (under SpecLogin)                    *)
(***************************************************************************)
\* A token that can be installed: not empty, no white space in it.
CleanToken(t) == t # "" /\ \A i \in 1..Len(t) : Ch(t, i) \notin WS
TokenNames == {"puterAuthToken", "PUTER_AUTH_TOKEN"}
\* What the process may hold under a token name when it starts, from the
\* shell or from llm/.env.
StartTokensOf(e) == { e[n] : n \in TokenNames \cap DOMAIN e }
StartTokens ==
    UNION { StartTokensOf(LoadLines(st.shell, SplitLines(st.file))) :
                st \in LoginStarts }

\* C26: every token that _set_puter_token or puter-login has installed, and
\* every token that _extract_puter_token gives for a paste or an argument, is
\* non-empty and holds no white space; the two names of the token in
\* os.environ hold such a token or what the process started with.
C26_InstalledTokensClean ==
    /\ \A i \in DOMAIN log :
           log[i].op \in {"set_token", "store"} => CleanToken(log[i].tokA)
    /\ \A n \in TokenNames \cap DOMAIN environ :
           environ[n] \in StartTokens \/ CleanToken(environ[n])
    /\ \A text \in DOMAIN TokenOf : TokenOf[text] = "" \/ CleanToken(TokenOf[text])

\* The login flow of a bootstrap replied with the token " tok B\n", and the
\* two names hold tokB; puter-login has stored the token of a URL whose
\* query holds it as tok+%20B.
C26_Witness ==
    /\ \E i \in DOMAIN log : log[i].op = "set_token" /\ log[i].tokA = "tokB"
    /\ \A n \in TokenNames : n \in DOMAIN environ /\ environ[n] = "tokB"
    /\ TokenOf["http://localhost/cb?code=1&token=tok+%20B"] = "tokB"

(***************************************************************************)
(* qtmos_server.py: the /ask endpoint                                      *)
(***************************************************************************)
\* The field `model` of the requests: absent, a remote model, local models
\* named with the prefix.
AskModels ==
    { PyNone, PyStr("gpt-5"), PyStr("ollama/phi3"), PyStr(" OLLAMA/ ") }

\* os.getenv("QTMOS_LOCAL_FALLBACK_MODEL", "llama3:latest")
fallback_model(e) ==
    IF "QTMOS_LOCAL_FALLBACK_MODEL" \in DOMAIN e
    THEN e["QTMOS_LOCAL_FALLBACK_MODEL"] ELSE "llama3:latest"

\* raw_model = (req.model or "").strip()
raw_model(model) == Strip(StrOf(PyOr(model, PyStr(""))))
OllamaPrefixed(model) == StartsWith(Lower(raw_model(model)), "ollama/")
\* raw_model[len(ollama_prefix):].strip() or fallback_model
local_model(model, e) ==
    LET name == Strip(SubSeq(raw_model(model), Len("ollama/") + 1,
                             Len(raw_model(model))))
    IN  IF name # "" THEN name ELSE fallback_model(e)

\* What /ask answers: the dict returned (status 200) without its prompt and
\* reply, or the HTTPException raised; 500 where an exception of another
\* kind left the handler.
AskReply(provider, model, fallback_used) ==
    [status |-> 200, provider |-> provider, model |-> model,
     fallback_used |-> fallback_used]
AskError(status) ==
    [status |-> status, provider |-> "", model |-> "", fallback_used |-> FALSE]

\* The request is in the handler, at call_puter_with_model or after it.
AskPending == fn = "ask" /\ returned = <<>>

\* POST /ask, lines 228-263: to the response, or to the first external call
\* of call_puter_with_model(req.prompt, model=req.model).
CallAsk ==
    /\ Idle /\ fn = ""
    /\ \E model \in AskModels, allow \in BOOLEAN,
          o1 \in OllamaOutcomes, o2 \in OllamaOutcomes :
           /\ fn' = "ask"
           /\ arg' = <<model, allow>>
           /\ IF OllamaPrefixed(model)
              THEN \E r \in {query_ollama(Fresh("ask"),
                                          PyStr(local_model(model, environ)),
                                          o1, o2)} :
                       /\ Become(Finish(r.m, <<>>))
                       /\ returned' =
                              IF Truthy(r.ret)
                              THEN <<AskReply("ollama", local_model(model, environ),
                                              FALSE)>>
                              ELSE <<AskError(503)>>
              ELSE IF allow /\ ~has_puter_auth(environ)
              THEN \E r \in {query_ollama(Fresh("ask"),
                                          PyStr(fallback_model(environ)), o1, o2)} :
                       IF Truthy(r.ret)
                       THEN /\ Become(Finish(r.m, <<>>))
                            /\ returned' = <<AskReply("ollama",
                                                      fallback_model(environ), TRUE)>>
                       ELSE /\ Become(StartDispatch(r.m, model))
                            /\ returned' = <<>>
              ELSE /\ Become(StartDispatch(Fresh("ask"), model))
                   /\ returned' = <<>>
    /\ UNCHANGED <<routeVars, parseVars, loginVars, sharedVars>>

\* POST /ask, lines 263-287: call_puter_with_model has returned (reply,
\* used_model), or raised.
AskReturn ==
    /\ AskPending /\ entry = "ask" /\ pc \in {"done", "raised"}
    /\ fn' = fn /\ arg' = arg
    /\ IF pc = "raised"
       THEN /\ returned' = <<AskError(500)>>
            /\ Become(Cur)
       ELSE IF Truthy(result[1])
       THEN /\ returned' = <<AskReply("puter", StrOf(PyOr(result[2], arg[1])), FALSE)>>
            /\ Become(Cur)
       ELSE IF arg[2]
       THEN \E o1 \in OllamaOutcomes, o2 \in OllamaOutcomes :
                \E r \in {query_ollama(Cur, PyStr(fallback_model(environ)), o1, o2)} :
                    /\ Become(r.m)
                    /\ returned' =
                           IF Truthy(r.ret)
                           THEN <<AskReply("ollama", fallback_model(environ), TRUE)>>
                           ELSE <<AskError(503)>>
       ELSE /\ returned' = <<AskError(503)>>
            /\ Become(Cur)
    /\ UNCHANGED <<routeVars, parseVars, loginVars, sharedVars>>

\* The server process: Puter auth configured or not, the local fallback
\* model set or not, the helper installed or not.
AskInit ==
    /\ environ \in { EmptyEnv,
                      "QTMOS_LOCAL_FALLBACK_MODEL" :> "mistral:7b",
                      ("puterAuthToken" :> "tokA") @@ ("PUTER_AUTH_TOKEN" :> "tokA") }
    /\ PUTER_KEY \in {"", "sk-static"}
    /\ PUTER_DEFAULT_MODEL = "claude-opus-4-6"
    /\ PUTER_FALLBACK_MODEL = "claude-opus-4-6"
    /\ OLLAMA_MODEL = "llama3:latest"
    /\ bridgeExists \in BOOLEAN
    /\ sdk = "ok"
    /\ geminiEnabled = FALSE
    /\ CallIdle
    /\ RouteIdle /\ ParseIdle /\ LoginIdle /\ SharedIdle /\ ToolIdle
AskNext ==
    \/ CallAsk
    \/ AskReturn
    \/ KeyedPost
    \/ BridgeFirst
    \/ BridgeRetry349
    \/ BridgeRetry354
    \/ AuthHelper
SpecAsk == AskInit /\ [][AskNext]_vars

(***************************************************************************)
(* Properties of /ask (under SpecAsk)                                      *)
(***************************************************************************)
\* The request took the branch of line 250: no 'ollama/' model, the local
\* fallback allowed, and no Puter auth, so that its first call is the post
\* to the local backend.
AskWithoutAuth ==
    /\ fn = "ask" /\ ~OllamaPrefixed(arg[1]) /\ arg[2]
    /\ log # <<>> /\ log[1].op = "ollama"
LoginFlowRan == \E i \in DOMAIN log : log[i].op \in {"bootstrap", "helper"}

\* C27: a request to /ask with no 'ollama/' model, allow_local_fallback true
\* and no Puter auth configured goes to the local backend first and never
\* invokes the login flow (bootstrap), whether the local backend answers or
\* not.
C27_AskNeverBootstraps == AskWithoutAuth => ~LoginFlowRan

(***************************************************************************)
(* Properties of _run_puter_bridge_with_reauth on a successful reply       *)
(* (under Spec)                                                            *)
(***************************************************************************)
\* The bridge call of line 346 for candidate c: the first chat call made
\* for it.
FirstChatCalls(c) ==
    { i \in ChatCallsFor(c) : \A j \in ChatCallsFor(c) : i <= j }

\* C28: where the first bridge reply for a candidate is ok with non-empty
\* content, whatever its other fields, _run_puter_bridge_with_reauth invokes
\* no bootstrap, makes no second bridge call, leaves the active token as it
\* is and returns that reply, which the dispatch returns.
C28_SuccessfulReplyNoReauth ==
    InDispatch =>
        \A c \in 1..Len(candidates) : \A i \in FirstChatCalls(c) :
            log[i].cls \in {"success", "success_auth"} =>
                /\ \A k \in (i + 1)..Len(log) :
                       log[k].op \notin {"bootstrap", "bridge", "set_token"}
                /\ pc = "done"
                /\ result[1] = PyStr(log[i].content)

(***************************************************************************)
(* qtmos_server.py: the /command endpoint                                  *)
(***************************************************************************)
SAFE_COMMANDS ==
    { "ask", "chat", "claw", "core-list", "gemini", "health", "ollama",
      "pack-list", "puter-chat", "puter-models", "pulse-now", "recall",
      "state", "synthesize", "wander", "whoami" }
BLOCKED_COMMANDS ==
    { "create-profile", "crawl", "define", "duel", "exit", "forget",
      "genesis-review", "ingest-api", "ingest-ollama", "ingest-url", "learn",
      "load-core", "load-pack", "new-profile", "promote", "pulse-start",
      "pulse-stop", "puter-login", "qtm", "qtm-shell", "quit", "run-script",
      "scan", "wslmenu" }
SAFE_CLAW_SUBCOMMANDS == { "health", "help", "memory", "status" }

\* shlex.split(s) in POSIX mode, read from position i on.  st is the state of
\* the lexer: "ws" between tokens, "a" in a token, "sq" and "dq" in quotes,
\* "esc_a" and "esc_dq" after a backslash; tok is the token being read and
\* acc the tokens read.  ok is FALSE where shlex raises ValueError (a quote
\* not closed, a backslash with nothing after it).
ShlexWs == {" ", "\t", "\r", "\n"}
RECURSIVE ShlexFrom(_, _, _, _, _)
ShlexFrom(s, i, st, tok, acc) ==
    IF i > Len(s)
    THEN IF st = "ws" THEN [ok |-> TRUE, v |-> acc]
         ELSE IF st = "a" THEN [ok |-> TRUE, v |-> Append(acc, tok)]
         ELSE [ok |-> FALSE, v |-> <<>>]
    ELSE IF st = "ws"
    THEN IF Ch(s, i) \in ShlexWs THEN ShlexFrom(s, i + 1, "ws", "", acc)
         ELSE IF Ch(s, i) = "\\" THEN ShlexFrom(s, i + 1, "esc_a", "", acc)
         ELSE IF Ch(s, i) = "'" THEN ShlexFrom(s, i + 1, "sq", "", acc)
         ELSE IF Ch(s, i) = "\"" THEN ShlexFrom(s, i + 1, "dq", "", acc)
         ELSE ShlexFrom(s, i + 1, "a", Ch(s, i), acc)
    ELSE IF st = "a"
    THEN IF Ch(s, i) \in ShlexWs THEN ShlexFrom(s, i + 1, "ws", "", Append(acc, tok))
         ELSE IF Ch(s, i) = "\\" THEN ShlexFrom(s, i + 1, "esc_a", tok, acc)
         ELSE IF Ch(s, i) = "'" THEN ShlexFrom(s, i + 1, "sq", tok, acc)
         ELSE IF Ch(s, i) = "\"" THEN ShlexFrom(s, i + 1, "dq", tok, acc)
         ELSE ShlexFrom(s, i + 1, "a", tok \o Ch(s, i), acc)
    ELSE IF st = "sq"
    THEN IF Ch(s, i) = "'" THEN ShlexFrom(s, i + 1, "a", tok, acc)
         ELSE ShlexFrom(s, i + 1, "sq", tok \o Ch(s, i), acc)
    ELSE IF st = "dq"
    THEN IF Ch(s, i) = "\"" THEN ShlexFrom(s, i + 1, "a", tok, acc)
         ELSE IF Ch(s, i) = "\\" THEN ShlexFrom(s, i + 1, "esc_dq", tok, acc)
         ELSE ShlexFrom(s, i + 1, "dq", tok \o Ch(s, i), acc)
    ELSE IF st = "esc_a"
    THEN ShlexFrom(s, i + 1, "a", tok \o Ch(s, i), acc)
    ELSE IF Ch(s, i) \in {"\\", "\""}
    THEN ShlexFrom(s, i + 1, "dq", tok \o Ch(s, i), acc)
    ELSE ShlexFrom(s, i + 1, "dq", (tok \o "\\") \o Ch(s, i), acc)
shlex_split(s) == ShlexFrom(s, 1, "ws", "", <<>>)

\* A mutation: the subcommand of claw is not looked at.
ValidateParts_AnyClaw(p) ==
    IF ~p.ok THEN 400
    ELSE IF p.v = <<>> THEN 400
    ELSE IF Lower(p.v[1]) \in BLOCKED_COMMANDS THEN 403
    ELSE IF Lower(p.v[1]) \notin SAFE_COMMANDS THEN 403
    ELSE 200

\* What _validate_safe_command does on the tokens: returns them (status 200)
\* or raises HTTPException with this status.
ValidateParts(p) ==
    IF ~p.ok THEN 400
    ELSE IF p.v = <<>> THEN 400
    ELSE IF Lower(p.v[1]) \in BLOCKED_COMMANDS THEN 403
    ELSE IF Lower(p.v[1]) \notin SAFE_COMMANDS THEN 403
    ELSE IF /\ Lower(p.v[1]) = "claw"
            /\ (IF Len(p.v) > 1 THEN Lower(p.v[2]) ELSE "") \notin SAFE_CLAW_SUBCOMMANDS
    THEN 403
    ELSE 200

_validate_safe_command(line) ==
    CHOOSE status \in {ValidateParts(p) : p \in {shlex_split(Strip(line))}} : TRUE

\* The lines of the requests: up to MaxParts words, a space between them,
\* white space around them or not.
MaxParts == 2
CommandWords ==
    { "ask", "Chat", "claw", "CLAW", "status", "STATUS", "map", "--json",
      "learn", "PUTER-LOGIN", "puter-auth", "\"ask\"", "'le'arn", "\\claw",
      "''", "\"ask", "hi\\", "\"\\\"\\a\"" }
CommandLines ==
    { pre \o Join(q, " ") \o post :
          q \in UNION {[1..n -> CommandWords] : n \in 0..MaxParts},
          pre \in {"", " "}, post \in {"", "\n"} }

\* POST /command: _run_core_command(req.cmd); the call of
\* _SYSTEM.handle_command is logged with the line it is given.
CallRunCoreCommand ==
    /\ fn = "" /\ Idle
    /\ fn' = "_run_core_command"
    /\ arg' = arg
    /\ \E status \in {_validate_safe_command(arg[1])} :
           /\ returned' = <<status>>
           /\ Become(Finish(
                  IF status = 200
                  THEN Logged(Fresh("_run_core_command"),
                              [Ev("handle_command", 0, "", "") EXCEPT
                                  !.content = arg[1]])
                  ELSE Fresh("_run_core_command"), <<>>))
    /\ UNCHANGED <<routeVars, parseVars, loginVars, sharedVars>>

CommandInit ==
    /\ LlmQuiet /\ RouteIdle /\ ParseIdle /\ LoginIdle /\ SharedIdle
    /\ fn = ""
    /\ arg \in {<<line>> : line \in CommandLines}
    /\ returned = <<>>
CommandNext == CallRunCoreCommand
SpecCommand == CommandInit /\ [][CommandNext]_vars

(***************************************************************************)
(* Properties of /command (under SpecCommand)                              *)
(***************************************************************************)
\* The shell tokens of the request line.
ShellTokens == shlex_split(Strip(arg[1]))
FirstToken == Lower(ShellTokens.v[1])
HandleCommandRan == \E i \in DOMAIN log : log[i].op = "handle_command"
Rejected == returned[1] \in {400, 403} /\ log = <<>>
\* The line passes the allowlist, the second token of a claw line being
\* taken as it is (exact) or lower-cased.
Allowlisted(exact) ==
    /\ ShellTokens.ok /\ ShellTokens.v # <<>>
    /\ FirstToken \in SAFE_COMMANDS /\ FirstToken \notin BLOCKED_COMMANDS
    /\ FirstToken = "claw" =>
           /\ Len(ShellTokens.v) > 1
           /\ (IF exact THEN ShellTokens.v[2] ELSE Lower(ShellTokens.v[2]))
                  \in SAFE_CLAW_SUBCOMMANDS

\* C29 as stated: handle_command runs only if the first shell token,
\* lower-cased, is in SAFE_COMMANDS and not in BLOCKED_COMMANDS, and for claw
\* only if the second token is in SAFE_CLAW_SUBCOMMANDS; every other line is
\* rejected with 400 or 403 and handle_command does not run; no name is in
\* both sets.
C29_CommandAllowlist ==
    /\ SAFE_COMMANDS \cap BLOCKED_COMMANDS = {}
    /\ fn = "_run_core_command" =>
           /\ HandleCommandRan => Allowlisted(TRUE)
           /\ ~Allowlisted(TRUE) => Rejected

\* C29 amended: the same, the second token of a claw line being lower-cased
\* before it is looked up, as the first is; a line that passes is run and
\* answered with 200.
C29_CommandAllowlistLowerCased ==
    /\ SAFE_COMMANDS \cap BLOCKED_COMMANDS = {}
    /\ fn = "_run_core_command" =>
           /\ HandleCommandRan => Allowlisted(FALSE)
           /\ ~Allowlisted(FALSE) => Rejected
           /\ Allowlisted(FALSE) => (HandleCommandRan /\ returned[1] = 200)

\* The line claw STATUS was run and answered with 200.
C29_Witness ==
    /\ fn = "_run_core_command"
    /\ arg[1] = "claw STATUS"
    /\ HandleCommandRan
    /\ returned[1] = 200

(***************************************************************************)
(* Two threads, the two names of the token equal at the start               *)
(***************************************************************************)
\* The value under a name of os.environ, "" where it is not set.
EnvValue(e, name) == IF name \in DOMAIN e THEN e[name] ELSE ""
KeysEqual(e) == EnvValue(e, "puterAuthToken") = EnvValue(e, "PUTER_AUTH_TOKEN")

EqualInit == SharedInit /\ KeysEqual(environ)
EqualNext ==
    \/ SharedCall
    \/ SharedRead
    \/ SharedSpawn
    \/ SharedSet1
    \/ SharedSet2
SpecEqual == EqualInit /\ [][EqualNext]_vars

(***************************************************************************)
(* Properties of the two names of the token (under SpecEqual)              *)
(***************************************************************************)
\* No call of _set_puter_token is at line 220 or between its two
\* assignments.
NoWriteInProgress == \A w \in Threads : callers[w].pc \notin {"set1", "set2"}

\* C30: the two names held the same value at the start; in every state where
\* no token write is in progress puterAuthToken and PUTER_AUTH_TOKEN hold
\* the same value, whatever the interleaving of the writes of the two
\* threads, and a helper whose environment was copied while no write was in
\* progress got the same token under both names.
C30_TokenKeysStayEqual ==
    /\ NoWriteInProgress => KeysEqual(environ)
    /\ \A w \in Threads :
           (callers[w].last.seen /\ BeingSet(callers[w].last.copyAt) = {}) =>
               callers[w].last.envA = callers[w].last.envB
====
